---- MODULE Spec2Model ----
(***************************************************************************)
(* smart-product-finder: the search coordinator (fan-out over platform     *)
(* providers, join, merge), the filter agent (price filter, dedup, sort,   *)
(* price analysis, best deals) and the provider's validation step.         *)
(*                                                                         *)
(* Python values are modelled by what the code does with them:             *)
(*   - a str is a sequence of one-character strings, so lower(), strip(),  *)
(*     "in", "<" and f-string formatting are computed, not assumed;        *)
(*   - a dict value that may be an int, a float, a str, None or absent is  *)
(*     a record [t, v] (t the Python type, v the number; a str price is    *)
(*     the decimal text of v);                                             *)
(*   - an operation that raises is a predicate ...Raises next to the       *)
(*     operator that gives its value when it does not raise.               *)
(***************************************************************************)
EXTENDS Integers, Sequences, FiniteSets, TLC

(***************************************************************************)
(* Bounds of the model                                                     *)
(***************************************************************************)
\* longest platform list of a coordinate call
MaxPlatforms == 2
\* longest freely chosen part of a product list given to the filter agent
MaxLen == 2
\* largest max_results_per_platform of a coordinate call
MaxResults == 2
\* create_page calls made on the browser tool
MaxCalls == 4
\* search() calls made on one SmartProductFinder
MaxSearches == 2

(***************************************************************************)
(* Program constants                                                       *)
(***************************************************************************)
\* FilterAgent.execute: find_best_deals(products, top_n=5)
TopN == 5

(***************************************************************************)
(* Python str                                                              *)
(***************************************************************************)
\* code point of the characters the model uses (str comparison is by code point)
Ord(c) ==
    CASE c = " " -> 32 [] c = "-" -> 45 [] c = "." -> 46
      [] c = "0" -> 48 [] c = "1" -> 49 [] c = "2" -> 50 [] c = "3" -> 51
      [] c = "4" -> 52 [] c = "5" -> 53 [] c = "6" -> 54 [] c = "7" -> 55
      [] c = "8" -> 56 [] c = "9" -> 57
      [] c = "A" -> 65 [] c = "B" -> 66 [] c = "C" -> 67 [] c = "D" -> 68
      [] c = "E" -> 69 [] c = "N" -> 78 [] c = "_" -> 95
      [] c = "a" -> 97 [] c = "b" -> 98 [] c = "c" -> 99 [] c = "d" -> 100
      [] c = "e" -> 101 [] c = "f" -> 102 [] c = "i" -> 105 [] c = "j" -> 106
      [] c = "n" -> 110 [] c = "o" -> 111 [] c = "p" -> 112 [] c = "t" -> 116
      [] c = "y" -> 121

\* str.lower() on one character
LowerChar(c) ==
    CASE c = "A" -> "a" [] c = "B" -> "b" [] c = "C" -> "c" [] c = "D" -> "d"
      [] c = "E" -> "e" [] c = "N" -> "n" [] OTHER -> c

\* str.lower()
Lower(s) == [i \in 1..Len(s) |-> LowerChar(s[i])]

RECURSIVE LStrip(_)
LStrip(s) == IF s # <<>> /\ Head(s) = " " THEN LStrip(Tail(s)) ELSE s

RECURSIVE RStrip(_)
RStrip(s) ==
    IF s # <<>> /\ s[Len(s)] = " " THEN RStrip(SubSeq(s, 1, Len(s) - 1)) ELSE s

\* str.strip()
Strip(s) == RStrip(LStrip(s))

\* a in b, for two str
Contains(a, b) ==
    \E i \in 1..(Len(b) + 1) :
        /\ i + Len(a) - 1 <= Len(b)
        /\ SubSeq(b, i, i + Len(a) - 1) = a

\* a < b, for two str (lexicographic by code point)
RECURSIVE StrLess(_, _)
StrLess(a, b) ==
    IF b = <<>> THEN FALSE
    ELSE IF a = <<>> THEN TRUE
    ELSE IF Ord(Head(a)) # Ord(Head(b)) THEN Ord(Head(a)) < Ord(Head(b))
    ELSE StrLess(Tail(a), Tail(b))

DigitChar(d) ==
    CASE d = 0 -> "0" [] d = 1 -> "1" [] d = 2 -> "2" [] d = 3 -> "3"
      [] d = 4 -> "4" [] d = 5 -> "5" [] d = 6 -> "6" [] d = 7 -> "7"
      [] d = 8 -> "8" [] d = 9 -> "9"

RECURSIVE Digits(_)
Digits(n) ==
    IF n < 10 THEN <<DigitChar(n)>>
    ELSE Digits(n \div 10) \o <<DigitChar(n % 10)>>

\* str(n) of an int
IntStr(n) == IF n < 0 THEN <<"-">> \o Digits(-n) ELSE Digits(n)

(***************************************************************************)
(* Python values of a dict entry                                           *)
(***************************************************************************)
IntV(n) == [t |-> "int", v |-> n]
\* the float n.0
FloatV(n) == [t |-> "float", v |-> n]
\* float('inf')
InfV == [t |-> "inf", v |-> 0]
\* the str whose text is str(n)
StrV(n) == [t |-> "str", v |-> n]
NoneV == [t |-> "none", v |-> 0]
\* the key is not in the dict
MissingV == [t |-> "missing", v |-> 0]

IsNumber(x) == x.t \in {"int", "float", "inf"}

\* dict.get(key, default)
Get(x, default) == IF x.t = "missing" THEN default ELSE x

\* bool(x) as "if x:" takes it
Truthy(x) ==
    CASE x.t \in {"int", "float"} -> x.v # 0
      [] x.t = "inf" -> TRUE
      [] x.t = "str" -> TRUE
      [] OTHER -> FALSE

\* a < b, for two numbers
NumLess(a, b) ==
    IF a.t = "inf" THEN FALSE
    ELSE IF b.t = "inf" THEN TRUE
    ELSE a.v < b.v

\* f"{x}" of a value
Format(x) ==
    CASE x.t = "int" -> IntStr(x.v)
      [] x.t = "float" -> IntStr(x.v) \o <<".", "0">>
      [] x.t = "inf" -> <<"i", "n", "f">>
      [] x.t = "str" -> IntStr(x.v)
      [] OTHER -> <<"N", "o", "n", "e">>

\* a title: a str, None or absent
TitleV(s) == [t |-> "str", s |-> s]
NoneTitle == [t |-> "none", s |-> <<>>]
MissingTitle == [t |-> "missing", s |-> <<>>]

\* the product dict has no 'platform' key
NoPlatform == ""

\* product.get('platform', default) as a str
PlatformChars(p) ==
    CASE p = NoPlatform -> <<>>
      [] p = "jd" -> <<"j", "d">>
      [] p = "pdd" -> <<"p", "d", "d">>
      [] p = "taobao" -> <<"t", "a", "o", "b", "a", "o">>
      [] OTHER -> <<"e", "b", "a", "y">>

\* a product dict; id stands for the identity of the dict object
Product(title, price, platform, brand, model) ==
    [title |-> title, price |-> price, platform |-> platform,
     brand |-> brand, model |-> model, id |-> 0]

(***************************************************************************)
(* tools/price_validator.py                                                *)
(***************************************************************************)
\* validate_price without its lower bound: price <= max_price
validate_price_NoLowerBound(price, max_price) ==
    /\ IsNumber(price)
    /\ IsNumber(max_price)
    /\ ~NumLess(max_price, price)

\* PriceValidator.validate_price: 0 < price <= max_price, False on TypeError
validate_price(price, max_price) ==
    /\ IsNumber(price)
    /\ IsNumber(max_price)
    /\ NumLess(IntV(0), price)
    /\ ~NumLess(max_price, price)

\* filter_by_price keeping a product that has no price
filter_by_price_KeepsUnpriced(products, max_price) ==
    SelectSeq(products,
        LAMBDA p : p.price.t = "missing" \/ validate_price(Get(p.price, IntV(0)), max_price))

\* PriceValidator.filter_by_price
filter_by_price(products, max_price) ==
    SelectSeq(products, LAMBDA p : validate_price(Get(p.price, IntV(0)), max_price))

\* a rational number num/den: the result of Python's true division
Num(n) == [num |-> n, den |-> 1]
Div(n, d) == [num |-> n, den |-> d]

RECURSIVE SumSeq(_)
SumSeq(s) == IF s = <<>> THEN 0 ELSE Head(s) + SumSeq(Tail(s))

RECURSIVE InsertNum(_, _)
InsertNum(s, x) ==
    IF s = <<>> THEN <<x>>
    ELSE IF x < Head(s) THEN <<x>> \o s
    ELSE <<Head(s)>> \o InsertNum(Tail(s), x)

\* list.sort() of a list of numbers
RECURSIVE SortNums(_)
SortNums(s) ==
    IF s = <<>> THEN <<>>
    ELSE InsertNum(SortNums(SubSeq(s, 1, Len(s) - 1)), s[Len(s)])

\* the prices left in the order of the products
SortPrices_InputOrder(prices) == prices

\* prices.sort() of analyze_prices
SortPrices(prices) == SortNums(prices)

\* PositivePrices keeping every price that is not negative
PositivePrices_NonNegative(products) ==
    LET pos == SelectSeq(products, LAMBDA p : ~NumLess(Get(p.price, IntV(0)), IntV(0)))
    IN  [i \in 1..Len(pos) |-> Get(pos[i].price, IntV(0)).v]

\* [p.get('price', 0) for p in products if p.get('price', 0) > 0]
PositivePrices(products) ==
    LET pos == SelectSeq(products, LAMBDA p : NumLess(IntV(0), Get(p.price, IntV(0))))
    IN  [i \in 1..Len(pos) |-> pos[i].price.v]

\* p.get('price', 0) > 0 raises TypeError on a str or None price
AnalyzeRaises(products) ==
    \E i \in 1..Len(products) : ~IsNumber(Get(products[i].price, IntV(0)))

SeqMin(s) == CHOOSE x \in {s[i] : i \in 1..Len(s)} : \A j \in 1..Len(s) : x <= s[j]
SeqMax(s) == CHOOSE x \in {s[i] : i \in 1..Len(s)} : \A j \in 1..Len(s) : x >= s[j]

\* the record returned when there is no product or no positive price
ZeroAnalysis ==
    [count |-> 0, min |-> Num(0), max |-> Num(0), average |-> Num(0), median |-> Num(0)]

\* product.get('platform', 'unknown')
PlatformOrUnknown(product) ==
    IF product.platform = NoPlatform THEN "unknown" ELSE product.platform

\* PlatformStats with every positive price in one group
PlatformStats_OneGroup(products) ==
    LET prices == PositivePrices(products)
    IN  [tag \in {"unknown"} |->
            [count |-> Len(prices),
             average |-> Div(SumSeq(prices), Len(prices)),
             min |-> Num(SeqMin(prices)),
             max |-> Num(SeqMax(prices))]]

\* the per-platform part of analyze_prices
PlatformStats(products) ==
    LET tags == {PlatformOrUnknown(products[i]) : i \in
                    {j \in 1..Len(products) :
                        NumLess(IntV(0), Get(products[j].price, IntV(0)))}}
    IN  [tag \in tags |->
            LET prices == PositivePrices(
                             SelectSeq(products, LAMBDA p : PlatformOrUnknown(p) = tag))
            IN  [count |-> Len(prices),
                 average |-> Div(SumSeq(prices), Len(prices)),
                 min |-> Num(SeqMin(prices)),
                 max |-> Num(SeqMax(prices))]]

\* PriceValidator.analyze_prices, when it does not raise
analyze_prices(products) ==
    IF products = <<>> THEN ZeroAnalysis
    ELSE LET prices == SortPrices(PositivePrices(products))
             count == Len(prices)
         IN  IF prices = <<>> THEN ZeroAnalysis
             ELSE [count |-> count,
                   min |-> Num(SeqMin(prices)),
                   max |-> Num(SeqMax(prices)),
                   average |-> Div(SumSeq(prices), count),
                   median |-> IF count % 2 = 1
                                THEN Num(prices[(count \div 2) + 1])
                                ELSE Div(prices[count \div 2] + prices[(count \div 2) + 1], 2),
                   by_platform |-> PlatformStats(products)]

(***************************************************************************)
(* sorted(products, key=...): the key, when "<" raises, and the order      *)
(***************************************************************************)
SortKeys == {"price", "platform", "title"}

\* SortKey with a product without a price sorting as 0
SortKey_MissingPriceZero(product, sort_by) ==
    IF sort_by = "price"
    THEN [c |-> "num", n |-> Get(product.price, IntV(0)), s |-> <<>>]
    ELSE IF sort_by = "platform"
    THEN [c |-> "str", n |-> IntV(0), s |-> PlatformChars(product.platform)]
    ELSE [c |-> "str", n |-> IntV(0), s |-> Get(product.title, TitleV(<<>>)).s]

\* the key lambda of sort_products and of find_best_deals
SortKey(product, sort_by) ==
    IF sort_by = "price"
    THEN LET x == Get(product.price, InfV)
         IN  CASE IsNumber(x) -> [c |-> "num", n |-> x, s |-> <<>>]
               [] x.t = "str" -> [c |-> "str", n |-> IntV(0), s |-> IntStr(x.v)]
               [] OTHER -> [c |-> "none", n |-> IntV(0), s |-> <<>>]
    ELSE IF sort_by = "platform"
    THEN [c |-> "str", n |-> IntV(0), s |-> PlatformChars(product.platform)]
    ELSE LET x == Get(product.title, TitleV(<<>>))
         IN  IF x.t = "str" THEN [c |-> "str", n |-> IntV(0), s |-> x.s]
             ELSE [c |-> "none", n |-> IntV(0), s |-> <<>>]

\* a < b for two keys of the same type
KeyLess(a, b) == IF a.c = "num" THEN NumLess(a.n, b.n) ELSE StrLess(a.s, b.s)

\* sorted() compares every element with another one: it raises TypeError when
\* two keys are of different types or a key is None, unless nothing is compared
SortRaises(products, sort_by) ==
    /\ Len(products) >= 2
    /\ \/ \E i \in 1..Len(products) : SortKey(products[i], sort_by).c = "none"
       \/ \E i, j \in 1..Len(products) :
              SortKey(products[i], sort_by).c # SortKey(products[j], sort_by).c

RECURSIVE InsertSorted(_, _, _)
InsertSorted(s, x, sort_by) ==
    IF s = <<>> THEN <<x>>
    ELSE IF KeyLess(SortKey(x, sort_by), SortKey(Head(s), sort_by)) THEN <<x>> \o s
    ELSE <<Head(s)>> \o InsertSorted(Tail(s), x, sort_by)

\* sorted(products, key=...): ascending and stable
RECURSIVE Sorted(_, _)
Sorted(products, sort_by) ==
    IF products = <<>> THEN <<>>
    ELSE InsertSorted(Sorted(SubSeq(products, 1, Len(products) - 1), sort_by),
                      products[Len(products)], sort_by)

\* sorted_products[:top_n]
Take(s, n) == SubSeq(s, 1, IF Len(s) < n THEN Len(s) ELSE n)

\* find_best_deals without its own sort: products[:top_n]
find_best_deals_Unsorted(products, top_n) == Take(products, top_n)

\* PriceValidator.find_best_deals, when it does not raise
find_best_deals(products, top_n) ==
    IF products = <<>> THEN <<>> ELSE Take(Sorted(products, "price"), top_n)

BestDealsRaises(products) == SortRaises(products, "price")

(***************************************************************************)
(* agents/filter_agent.py                                                  *)
(***************************************************************************)
\* the identity key of remove_duplicates: f"{title}_{price}"
DedupKey(product) ==
    Strip(Lower(Get(product.title, TitleV(<<>>)).s))
        \o <<"_">> \o Format(Get(product.price, IntV(0)))

\* None.lower() raises AttributeError
DedupRaises(products) == \E i \in 1..Len(products) : products[i].title.t = "none"

RECURSIVE RemoveSeen(_, _)
RemoveSeen(products, seen) ==
    IF products = <<>> THEN <<>>
    ELSE IF DedupKey(Head(products)) \in seen THEN RemoveSeen(Tail(products), seen)
    ELSE <<Head(products)>>
            \o RemoveSeen(Tail(products), seen \cup {DedupKey(Head(products))})

\* remove_duplicates returning after the first duplicate it dropped
remove_duplicates_DropsOne(products) ==
    LET dup == {k \in 1..Len(products) :
                  \E j \in 1..(k - 1) : DedupKey(products[j]) = DedupKey(products[k])}
    IN  IF dup = {} THEN products
        ELSE LET d == CHOOSE k \in dup : \A j \in dup : k <= j
             IN  SubSeq(products, 1, d - 1) \o SubSeq(products, d + 1, Len(products))

\* FilterAgent.remove_duplicates, when it does not raise
remove_duplicates(products) == RemoveSeen(products, {})

\* sort_products through a dict keyed by the sort key: of the products of one
\* key only the first is kept
sort_products_DropsTies(products, sort_by) ==
    IF sort_by \notin SortKeys THEN products
    ELSE LET s == Sorted(products, sort_by)
             keep == {k \in 1..Len(s) :
                        k = 1 \/ SortKey(s[k], sort_by) # SortKey(s[k - 1], sort_by)}
         IN  [n \in 1..Cardinality(keep) |->
                 s[CHOOSE k \in keep : Cardinality({j \in keep : j <= k}) = n]]

\* sort_products with a sort that is not stable: products of one key come out
\* in the reverse of their input order
sort_products_TiesReversed(products, sort_by) ==
    IF sort_by \in SortKeys
    THEN Sorted([k \in 1..Len(products) |-> products[Len(products) + 1 - k]], sort_by)
    ELSE products

\* FilterAgent.sort_products, when it does not raise
sort_products(products, sort_by) ==
    IF sort_by \in SortKeys THEN Sorted(products, sort_by) ELSE products

SortProductsRaises(products, sort_by) ==
    sort_by \in SortKeys /\ SortRaises(products, sort_by)

\* execute sorting the list of the task in place: products.sort(key=price)
ProductsAfterExecute_SortedInPlace(task) ==
    IF SortRaises(task.products, "price") THEN task.products
    ELSE Sorted(task.products, "price")

\* the list task['products'] when execute has returned: every step builds a
\* new list of the same dicts (a comprehension-like loop with append, sorted(),
\* a slice) and no step assigns to a dict or calls a method that changes the
\* list
ProductsAfterExecute(task) == task.products

\* FilterDegraded reporting the length of the list as filtered_count
FilterDegraded_CountsInput(products) ==
    [status |-> "error", filtered_products |-> <<>>,
     original_count |-> Len(products), filtered_count |-> Len(products),
     error |-> "raised"]

\* the except branch of FilterAgent.execute; products is the list the local
\* variable names when the step raises
FilterDegraded(products) ==
    [status |-> "error", filtered_products |-> <<>>,
     original_count |-> Len(products), filtered_count |-> 0, error |-> "raised"]

\* FilterAgent.execute (BaseAgent.run returns its result)
FilterAgent_execute(task) ==
    LET max_price == Get(task.search_criteria.max_price, NoneV)
        p1 == IF Truthy(max_price)
                THEN filter_by_price(task.products, max_price)
                ELSE task.products
        p2 == IF task.filter_duplicates THEN remove_duplicates(p1) ELSE p1
        p3 == sort_products(p2, task.sort_by)
    IN  IF task.filter_duplicates /\ DedupRaises(p1) THEN FilterDegraded(p1)
        ELSE IF SortProductsRaises(p2, task.sort_by) THEN FilterDegraded(p2)
        ELSE IF AnalyzeRaises(p3) \/ BestDealsRaises(p3) THEN FilterDegraded(p3)
        ELSE [status |-> "success",
              filtered_products |-> p3,
              original_count |-> Len(task.products),
              filtered_count |-> Len(p3),
              price_analysis |-> analyze_prices(p3),
              best_deals |-> find_best_deals(p3, TopN)]

(***************************************************************************)
(* The inputs the model draws                                              *)
(***************************************************************************)
\* the brand and model the searches ask for
Brand == <<"a">>
Model == <<"b">>

\* product lists given to the filter agent are made of these: a duplicate pair
\* across platforms that differs in case and spaces, the same price as an int
\* and as a float, a price at, above and below the limits, an absent, a str and
\* a None price, a None title, a product without a platform
FilterUniverse ==
    { Product(TitleV(<<"A">>), IntV(1), "jd", Brand, Model),
      Product(TitleV(<<"a", " ">>), IntV(1), "pdd", Brand, Model),
      Product(TitleV(<<"A">>), FloatV(1), "taobao", Brand, Model),
      Product(TitleV(<<"B">>), IntV(2), "taobao", Brand, Model),
      Product(TitleV(<<"B">>), IntV(3), "jd", Brand, Model),
      Product(TitleV(<<"B">>), IntV(0), "pdd", Brand, Model),
      Product(TitleV(<<"C">>), MissingV, "jd", Brand, Model),
      Product(TitleV(<<"C">>), StrV(1), "pdd", Brand, Model),
      Product(MissingTitle, NoneV, "taobao", Brand, Model),
      Product(NoneTitle, IntV(1), "jd", Brand, Model),
      Product(TitleV(<<"D">>), IntV(2), NoPlatform, Brand, Model) }

\* four more products with four different keys, all priced within 0 < price <= 2,
\* so that more than TopN products can survive the pipeline
LongTail ==
    << Product(TitleV(<<"D">>), IntV(2), "jd", Brand, Model),
       Product(TitleV(<<"E">>), IntV(1), "pdd", Brand, Model),
       Product(TitleV(<<"D">>), IntV(1), "taobao", Brand, Model),
       Product(TitleV(<<"E">>), FloatV(2), "jd", Brand, Model) >>

\* all sequences over S of length at most n
SeqsUpTo(S, n) == UNION {[1..k -> S] : k \in 0..n}

\* each dict of a list is an object of its own
WithIds(products, base) ==
    [i \in 1..Len(products) |-> [products[i] EXCEPT !.id = base + i]]

\* the two price lists of the median examples, neither in ascending order
PricedAt(n) == Product(TitleV(<<"A">>), IntV(n), "jd", Brand, Model)
MedianExamples ==
    { <<PricedAt(30), PricedAt(10), PricedAt(20)>>,
      <<PricedAt(40), PricedAt(10), PricedAt(30), PricedAt(20)>> }

FilterInputs ==
    {WithIds(head \o tail, 0) : head \in SeqsUpTo(FilterUniverse, MaxLen),
                                tail \in {<<>>, LongTail}}
        \cup {WithIds(products, 0) : products \in MedianExamples}

\* max_price of the criteria of a direct call of the filter agent
FilterMaxPrices == {MissingV, NoneV, IntV(0), IntV(2)}
\* sort_by of a call: the three keys and an unknown one
SortBys == SortKeys \cup {"rating"}

Criteria(max_price) == [brand |-> Brand, model |-> Model, max_price |-> max_price]

(***************************************************************************)
(* tools/product_extractor.py                                              *)
(***************************************************************************)
\* expected not in found and found not in expected
Mismatch(found, expected) ==
    LET f == Strip(Lower(found))
        e == Strip(Lower(expected))
    IN  ~Contains(e, f) /\ ~Contains(f, e)

\* product_price > search_criteria['max_price'] raises TypeError when one of
\* the two is not a number; it is reached when brand and model matched
ValidateRaises(product, search_criteria) ==
    /\ ~Mismatch(product.brand, search_criteria.brand)
    /\ ~Mismatch(product.model, search_criteria.model)
    /\ search_criteria.max_price.t # "missing"
    /\ \/ ~IsNumber(Get(product.price, InfV))
       \/ ~IsNumber(search_criteria.max_price)

\* validate_product_match without its price check
validate_product_match_NoPriceCheck(product, search_criteria) ==
    /\ ~Mismatch(product.brand, search_criteria.brand)
    /\ ~Mismatch(product.model, search_criteria.model)

\* ProductExtractor.validate_product_match, when it does not raise
validate_product_match(product, search_criteria) ==
    /\ ~Mismatch(product.brand, search_criteria.brand)
    /\ ~Mismatch(product.model, search_criteria.model)
    /\ \/ search_criteria.max_price.t = "missing"
       \/ ~NumLess(search_criteria.max_price, Get(product.price, InfV))

(***************************************************************************)
(* agents/jd_search_agent.py, agents/pdd_search_agent.py: one provider     *)
(* invocation (the two files differ in the tag, the URL and a delay)       *)
(***************************************************************************)
\* what the extraction collaborator may return for a page: candidates that
\* match, that fail on brand or on price, a float price, a price of 0, a str
\* price, a title of None (null in the reply of the model), and more
\* candidates than max_results.  A page without candidates gives what a
\* failed extraction and a list of rejected candidates give: no product
Candidate(title, price, brand) == Product(TitleV(title), price, "", brand, Model)

CandidateLists ==
    { <<Product(NoneTitle, IntV(1), "", Brand, Model)>>,
      <<Candidate(<<"A">>, IntV(1), Brand), Candidate(<<"B">>, IntV(2), Brand)>>,
      <<Candidate(<<"B">>, IntV(2), Brand), Candidate(<<"a", " ">>, FloatV(1), Brand)>>,
      <<Candidate(<<"C">>, IntV(1), <<"c">>),
        Candidate(<<"B">>, IntV(0), <<"A", " ">>),
        Candidate(<<"B">>, IntV(3), Brand)>>,
      <<Candidate(<<"A">>, StrV(1), Brand)>> }

\* the dict a provider returns on success
ProviderSuccess(platform, validated_products) ==
    [status |-> "success", platform |-> platform,
     products |-> validated_products, count |-> Len(validated_products)]

\* the dict a provider returns when navigation fails or its except branch runs
ProviderError(platform, error) ==
    [status |-> "error", platform |-> platform,
     products |-> <<>>, count |-> 0, error |-> error]

\* BaseAgent.run without its except branch: the exception reaches the caller
RunError_Reraised(agent) == [status |-> "raised", agent |-> agent]

\* the dict BaseAgent.run returns when execute raises
RunError(agent) == [status |-> "error", error |-> "raised", agent |-> agent]

\* ValidatedResult with the cut to max_results made after the validation
ValidatedResult_CutsAfterValidation(platform, candidates, search_criteria, max_results) ==
    IF \E k \in 1..Len(candidates) : ValidateRaises(candidates[k], search_criteria)
    THEN ProviderError(platform, "raised")
    ELSE ProviderSuccess(platform,
            Take(SelectSeq(candidates,
                           LAMBDA c : validate_product_match(c, search_criteria)),
                 max_results))

\* lines 93-106 of execute: the candidates of the page, cut to max_results and
\* validated; a validation that raises ends in the except branch
ValidatedResult(platform, candidates, search_criteria, max_results) ==
    LET first == Take(candidates, max_results)
    IN  IF \E k \in 1..Len(first) : ValidateRaises(first[k], search_criteria)
        THEN ProviderError(platform, "raised")
        ELSE ProviderSuccess(platform,
                SelectSeq(first, LAMBDA c : validate_product_match(c, search_criteria)))

\* dict.get(field, default) on a result dict
GetOr(r, field, default) == IF field \in DOMAIN r THEN r[field] ELSE default

(***************************************************************************)
(* State                                                                   *)
(***************************************************************************)
VARIABLES
    task,          \* the task dict of the coordinate call
    cpc,           \* where CoordinatorAgent.execute is
    search_tasks,  \* the platform of each (platform, coroutine) pair, in order
    tpc,           \* where each provider invocation is
    page,          \* the page of each provider invocation
    pending,       \* the value execute is returning while its finally runs
    progress,      \* how navigation and extraction of each invocation ended
    results,       \* the result of each provider invocation
    finished,      \* the invocations in the order they completed
    ret,           \* what CoordinatorAgent.run returned
    f_products,    \* the product list of a direct call of the filter agent
    f_call,        \* the operation called on it and its arguments
    f_ret,         \* what the call returned
    browser_tool,  \* the attributes playwright, browser, context of the BrowserTool
    launches,      \* how many playwrights, browsers and contexts were started
    bpc,           \* where initialize_components and each create_page call is
    pages,         \* the context of the page of each create_page call
    history,       \* SearchHistory.history: the records, oldest first
    sessions,      \* SessionManager.sessions: the session of each session id
    now,           \* the clock, in seconds
    s_call         \* the last search() call: its arguments and what it got

cvars == <<task, cpc, search_tasks, tpc, page, pending, progress, results,
          finished, ret>>
fvars == <<f_products, f_call, f_ret>>
bvars == <<browser_tool, launches, bpc, pages>>
svars == <<history, sessions, now, s_call>>
vars == <<task, cpc, search_tasks, tpc, page, pending, progress, results,
          finished, ret, f_products, f_call, f_ret,
          browser_tool, launches, bpc, pages,
          history, sessions, now, s_call>>

\* no value yet
Nothing == [status |-> "none"]

(***************************************************************************)
(* agents/coordinator_agent.py                                             *)
(***************************************************************************)
\* the keys of agent_map
Registry == {"jd", "taobao", "pdd"}
\* the platform ids the calls of the model request: the two providers whose
\* source is at hand and an id that is not registered
PlatformIds == {"jd", "pdd", "ebay"}

\* the agent behind a key of agent_map
AgentName(platform) ==
    CASE platform = "jd" -> "JD_Search_Agent"
      [] platform = "pdd" -> "PDD_Search_Agent"
      [] platform = "taobao" -> "Taobao_Search_Agent"
      [] OTHER -> "Unknown_Agent"

\* an entry of the platform list that cannot be hashed (a list instead of a
\* str): "platform in agent_map" raises TypeError
Unhashable == "[]"

\* the loop of lines 86-89 raises
BuildRaises(platforms) == \E k \in 1..Len(platforms) : platforms[k] = Unhashable

\* the entries the loop of lines 86-89 goes through before it raises or ends
RECURSIVE BeforeRaise(_)
BeforeRaise(platforms) ==
    IF platforms = <<>> \/ Head(platforms) = Unhashable THEN <<>>
    ELSE <<Head(platforms)>> \o BeforeRaise(Tail(platforms))

\* CoordinatorError without the search criteria
CoordinatorError_NoEcho(search_criteria) == [status |-> "error", error |-> "raised"]

\* lines 152-158: the dict the except branch of execute returns
CoordinatorError(search_criteria) ==
    [status |-> "error", error |-> "raised", search_criteria |-> search_criteria]

\* BuildSearchTasks without the "if platform in agent_map" test
BuildSearchTasks_NoLookup(platforms) == platforms

\* lines 86-89: one (platform, coroutine) pair per requested id in agent_map
BuildSearchTasks(platforms) == SelectSeq(platforms, LAMBDA p : p \in Registry)

\* assigning d[k] = v for each pair in turn: a key keeps the place of its first
\* assignment and the value of its last
DictKeys(ks) ==
    SelectSeq([i \in 1..Len(ks) |-> [k |-> ks[i], i |-> i]],
              LAMBDA e : \A j \in 1..(e.i - 1) : ks[j] # e.k)

\* lines 104-109: results_by_platform, as its keys in order and its values
ResultsByPlatform(tasks, res) ==
    [keys |-> [i \in 1..Len(DictKeys(tasks)) |-> DictKeys(tasks)[i].k],
     val |-> [p \in {tasks[i] : i \in 1..Len(tasks)} |->
                res[CHOOSE i \in 1..Len(tasks) :
                       tasks[i] = p /\ \A j \in (i + 1)..Len(tasks) : tasks[j] # p]]]

\* the products of the results at the given indices, in that order, of each
\* result whose status is success
RECURSIVE ExtendInOrder(_, _)
ExtendInOrder(order, res) ==
    IF order = <<>> THEN <<>>
    ELSE (IF GetOr(res[Head(order)], "status", "") = "success"
            THEN GetOr(res[Head(order)], "products", <<>>) ELSE <<>>)
         \o ExtendInOrder(Tail(order), res)

\* all_products extended in the order the invocations completed
AllProducts_CompletionOrder(tasks, res) == ExtendInOrder(finished, res)

\* all_products extended by a loop over results_by_platform.items()
AllProducts_FromDict(tasks, res) ==
    ExtendInOrder(
        [k \in 1..Len(DictKeys(tasks)) |->
            CHOOSE i \in 1..Len(tasks) :
                /\ tasks[i] = DictKeys(tasks)[k].k
                /\ \A j \in (i + 1)..Len(tasks) : tasks[j] # tasks[i]],
        res)

\* lines 105-113: all_products, extended in search_tasks order
AllProducts(tasks, res) == ExtendInOrder([i \in 1..Len(tasks) |-> i], res)

RECURSIVE SumCounts(_, _)
SumCounts(keys, val) ==
    IF keys = <<>> THEN 0
    ELSE (IF GetOr(val[Head(keys)], "status", "") = "success"
            THEN GetOr(val[Head(keys)], "count", 0) ELSE 0)
         + SumCounts(Tail(keys), val)

\* generate_summary with failed_platforms listing every platform of the dict
generate_summary_FailedListsAll(search_criteria, results_by_platform, filter_result) ==
    [total_products_found |->
        SumCounts(results_by_platform.keys, results_by_platform.val),
     after_filtering |-> GetOr(filter_result, "filtered_count", 0),
     successful_platforms |->
        SelectSeq(results_by_platform.keys,
            LAMBDA p : GetOr(results_by_platform.val[p], "status", "") = "success"),
     failed_platforms |-> results_by_platform.keys,
     search_query |-> Strip(search_criteria.brand \o <<" ">> \o search_criteria.model),
     max_price |-> Get(search_criteria.max_price, IntV(0))]

\* CoordinatorAgent.generate_summary
generate_summary(search_criteria, results_by_platform, filter_result) ==
    [total_products_found |->
        SumCounts(results_by_platform.keys, results_by_platform.val),
     after_filtering |-> GetOr(filter_result, "filtered_count", 0),
     successful_platforms |->
        SelectSeq(results_by_platform.keys,
            LAMBDA p : GetOr(results_by_platform.val[p], "status", "") = "success"),
     failed_platforms |->
        SelectSeq(results_by_platform.keys,
            LAMBDA p : GetOr(results_by_platform.val[p], "status", "") # "success"),
     search_query |-> Strip(search_criteria.brand \o <<" ">> \o search_criteria.model),
     max_price |-> Get(search_criteria.max_price, IntV(0))]

\* lines 122-128: the task handed to the filter agent
FilterTask(all_products, search_criteria) ==
    [products |-> all_products, search_criteria |-> search_criteria,
     filter_duplicates |-> TRUE, sort_by |-> "price"]

\* CoordinatorResult with execute giving up when the filter agent's result is
\* an error
CoordinatorResult_AbortsOnDegraded(search_criteria, tasks, res) ==
    LET results_by_platform == ResultsByPlatform(tasks, res)
        all_products == AllProducts(tasks, res)
        filter_result == FilterAgent_execute(FilterTask(all_products, search_criteria))
    IN  IF filter_result.status = "error" THEN CoordinatorError(search_criteria)
        ELSE [status |-> "success",
              search_criteria |-> search_criteria,
              results_by_platform |-> results_by_platform,
              all_products |-> all_products,
              filtered_products |-> filter_result.filtered_products,
              best_deals |-> filter_result.best_deals,
              price_analysis |-> filter_result.price_analysis,
              summary |-> generate_summary(search_criteria, results_by_platform,
                                           filter_result)]

\* lines 104-150: the dict execute returns once every result is in hand
CoordinatorResult(search_criteria, tasks, res) ==
    LET results_by_platform == ResultsByPlatform(tasks, res)
        all_products == AllProducts(tasks, res)
        filter_result == FilterAgent_execute(FilterTask(all_products, search_criteria))
    IN  [status |-> "success",
         search_criteria |-> search_criteria,
         results_by_platform |-> results_by_platform,
         all_products |-> all_products,
         filtered_products |-> GetOr(filter_result, "filtered_products", <<>>),
         best_deals |-> GetOr(filter_result, "best_deals", <<>>),
         price_analysis |-> GetOr(filter_result, "price_analysis", <<>>),
         summary |-> generate_summary(search_criteria, results_by_platform, filter_result)]

(***************************************************************************)
(* A coordinate call: CoordinatorAgent.run(task)                           *)
(***************************************************************************)
\* max_price of the criteria of a search: 0 and a limit
SearchMaxPrices == {IntV(0), IntV(2)}

Tasks ==
    [search_criteria : {Criteria(m) : m \in SearchMaxPrices},
     platforms : SeqsUpTo(PlatformIds \cup {Unhashable}, MaxPlatforms),
     max_results : 1..MaxResults,
     parallel : BOOLEAN]

FilterIdle == f_products = <<>> /\ f_call = Nothing /\ f_ret = Nothing

\* no BrowserTool is looked at
BrowserIdle ==
    /\ browser_tool = Nothing
    /\ launches = Nothing
    /\ bpc = <<>>
    /\ pages = <<>>

\* no search() call is looked at
SearchIdle ==
    /\ history = <<>>
    /\ sessions = <<>>
    /\ now = 0
    /\ s_call = Nothing

Init ==
    /\ task \in Tasks
    /\ cpc = "start"
    /\ search_tasks = <<>>
    /\ tpc = <<>>
    /\ page = <<>>
    /\ pending = <<>>
    /\ progress = <<>>
    /\ results = <<>>
    /\ finished = <<>>
    /\ ret = Nothing
    /\ FilterIdle
    /\ BrowserIdle
    /\ SearchIdle

\* execute, lines 60-89: the coroutines of the requested providers are made;
\* none has started when execute reaches its first await.  When the loop
\* raises, the except branch returns and the coroutines made so far never run
Prepare ==
    /\ cpc = "start"
    /\ search_tasks' = BuildSearchTasks(BeforeRaise(task.platforms))
    /\ tpc' = [i \in 1..Len(search_tasks') |-> "created"]
    /\ page' = [i \in 1..Len(search_tasks') |-> "none"]
    /\ pending' = [i \in 1..Len(search_tasks') |-> Nothing]
    /\ progress' = [i \in 1..Len(search_tasks') |-> "none"]
    /\ results' = [i \in 1..Len(search_tasks') |-> Nothing]
    /\ IF BuildRaises(task.platforms)
       THEN /\ cpc' = "failed"
            /\ ret' = CoordinatorError(task.search_criteria)
       ELSE /\ cpc' = "waiting"
            /\ UNCHANGED ret
    /\ UNCHANGED <<task, finished, fvars, bvars, svars>>

\* MayStart with the sequential loop starting its coroutines as gather does
MayStart_AlwaysGather(i) == \A j \in 1..(i - 1) : tpc[j] # "created"

\* when invocation i may begin: asyncio.gather starts its coroutines in
\* argument order; the sequential loop awaits one after the other has returned
MayStart(i) ==
    IF task.parallel
    THEN \A j \in 1..(i - 1) : tpc[j] # "created"
    ELSE \A j \in 1..(i - 1) : tpc[j] = "done"

\* BaseAgent.run and execute of invocation i up to "await create_page()"
StartProvider(i) ==
    /\ cpc = "waiting"
    /\ tpc[i] = "created"
    /\ MayStart(i)
    /\ tpc' = [tpc EXCEPT ![i] = "create_page"]
    /\ UNCHANGED <<task, cpc, search_tasks, page, pending, progress, results,
                   finished, ret, fvars, bvars, svars>>

\* Return with a retry: a failed invocation is made and awaited again
Return_RetriesFailure(i, r) ==
    IF r.status = "error"
    THEN /\ tpc' = [tpc EXCEPT ![i] = "created"]
         /\ UNCHANGED <<results, finished>>
    ELSE /\ tpc' = [tpc EXCEPT ![i] = "done"]
         /\ results' = [results EXCEPT ![i] = r]
         /\ finished' = Append(finished, i)

\* invocation i returns r to the coordinator
Return(i, r) ==
    /\ tpc' = [tpc EXCEPT ![i] = "done"]
    /\ results' = [results EXCEPT ![i] = r]
    /\ finished' = Append(finished, i)

\* create_page returns a page, or raises: the except branch returns the error
\* dict and finally has no page to close
CreatePage(i) ==
    /\ tpc[i] = "create_page"
    /\ \/ /\ page' = [page EXCEPT ![i] = "open"]
          /\ tpc' = [tpc EXCEPT ![i] = "navigate"]
          /\ UNCHANGED <<results, finished>>
       \/ /\ Return(i, ProviderError(search_tasks[i], "raised"))
          /\ UNCHANGED page
    /\ UNCHANGED <<task, cpc, search_tasks, pending, progress, ret, fvars, bvars, svars>>

\* Navigate with the return of lines 68-75 leaving execute without its finally
Navigate_ReturnsWithoutFinally(i) ==
    /\ tpc[i] = "navigate"
    /\ \/ /\ tpc' = [tpc EXCEPT ![i] = "extract"]
          /\ UNCHANGED <<progress, results, finished>>
       \/ /\ Return(i, ProviderError(search_tasks[i], "Failed to navigate"))
          /\ progress' = [progress EXCEPT ![i] = "navigation_failed"]
    /\ UNCHANGED <<task, cpc, search_tasks, page, pending, ret, fvars, bvars, svars>>

\* navigate returns True, or False: execute returns the error dict
Navigate(i) ==
    /\ tpc[i] = "navigate"
    /\ \/ /\ tpc' = [tpc EXCEPT ![i] = "extract"]
          /\ UNCHANGED <<pending, progress>>
       \/ /\ tpc' = [tpc EXCEPT ![i] = "close"]
          /\ pending' = [pending EXCEPT ![i] =
                            ProviderError(search_tasks[i], "Failed to navigate")]
          /\ progress' = [progress EXCEPT ![i] = "navigation_failed"]
    /\ UNCHANGED <<task, cpc, search_tasks, page, results, finished, ret, fvars, bvars, svars>>

\* the candidates as the extraction returns them for this platform
Extracted(i, candidates) ==
    WithIds([k \in 1..Len(candidates) |->
                [candidates[k] EXCEPT !.platform = search_tasks[i]]],
            10 * i)

\* sleep, scroll, extract_html, extract_products and the validation loop.
\* extract_products returns the candidates of the page, or its call of the
\* model raises or the reply is not JSON: it catches that and returns []
Extract(i) ==
    /\ tpc[i] = "extract"
    /\ \/ /\ \E candidates \in CandidateLists :
                pending' = [pending EXCEPT ![i] =
                    ValidatedResult(search_tasks[i], Extracted(i, candidates),
                                    task.search_criteria, task.max_results)]
          /\ progress' = [progress EXCEPT ![i] = "extracted"]
       \/ /\ pending' = [pending EXCEPT ![i] =
                    ValidatedResult(search_tasks[i], <<>>,
                                    task.search_criteria, task.max_results)]
          /\ progress' = [progress EXCEPT ![i] = "extraction_failed"]
    /\ tpc' = [tpc EXCEPT ![i] = "close"]
    /\ UNCHANGED <<task, cpc, search_tasks, page, results, finished, ret, fvars, bvars, svars>>

\* finally: page.close() returns and execute returns its value, or it raises and
\* BaseAgent.run returns its own error dict; the locals of execute are gone
ClosePage(i) ==
    /\ tpc[i] = "close"
    /\ \/ /\ page' = [page EXCEPT ![i] = "closed"]
          /\ Return(i, pending[i])
       \/ /\ page' = [page EXCEPT ![i] = "close_raised"]
          /\ Return(i, RunError(AgentName(search_tasks[i])))
    /\ pending' = [pending EXCEPT ![i] = Nothing]
    /\ UNCHANGED <<task, cpc, search_tasks, progress, ret, fvars, bvars, svars>>

\* Joined as a wait for the first completion instead of for all
Joined_FirstCompleted == \E i \in 1..Len(search_tasks) : tpc[i] = "done"

\* gather, or the sequential loop, has every result
Joined == \A i \in 1..Len(search_tasks) : tpc[i] = "done"

\* execute, lines 104-150, and BaseAgent.run returning its result
Collect ==
    /\ cpc = "waiting"
    /\ Joined
    /\ ret' = CoordinatorResult(task.search_criteria, search_tasks, results)
    /\ cpc' = "done"
    /\ UNCHANGED <<task, search_tasks, tpc, page, pending, progress, results,
                   finished, fvars, bvars, svars>>

Next ==
    \/ Prepare
    \/ \E i \in 1..Len(search_tasks) : StartProvider(i)
    \/ \E i \in 1..Len(search_tasks) : CreatePage(i)
    \/ \E i \in 1..Len(search_tasks) : Navigate(i)
    \/ \E i \in 1..Len(search_tasks) : Extract(i)
    \/ \E i \in 1..Len(search_tasks) : ClosePage(i)
    \/ Collect

Spec == Init /\ [][Next]_vars

(***************************************************************************)
(* Direct calls of the filter agent and of the price validator on a        *)
(* product list                                                            *)
(***************************************************************************)
CoordinatorIdle ==
    /\ task = Nothing
    /\ cpc = "idle"
    /\ search_tasks = <<>>
    /\ tpc = <<>>
    /\ page = <<>>
    /\ pending = <<>>
    /\ progress = <<>>
    /\ results = <<>>
    /\ finished = <<>>
    /\ ret = Nothing

InitFilter ==
    /\ f_products \in FilterInputs
    /\ f_call = Nothing
    /\ f_ret = Nothing
    /\ CoordinatorIdle
    /\ BrowserIdle
    /\ SearchIdle

\* what a call gave: its value, or that it raised
Returned(value) == [raised |-> FALSE, value |-> value]
Raised == [raised |-> TRUE, value |-> <<>>]

\* price_validator.filter_by_price(products, max_price)
CallFilterByPrice ==
    /\ f_call = Nothing
    /\ \E max_price \in {IntV(1), IntV(2)} :
          /\ f_call' = [op |-> "filter_by_price", max_price |-> max_price]
          /\ f_ret' = Returned(filter_by_price(f_products, max_price))
    /\ UNCHANGED <<f_products, cvars, bvars, svars>>

\* filter_agent.remove_duplicates(products)
CallRemoveDuplicates ==
    /\ f_call = Nothing
    /\ f_call' = [op |-> "remove_duplicates"]
    /\ f_ret' = IF DedupRaises(f_products) THEN Raised
                ELSE Returned(remove_duplicates(f_products))
    /\ UNCHANGED <<f_products, cvars, bvars, svars>>

\* filter_agent.run(task)
CallFilterAgent ==
    /\ f_call = Nothing
    /\ \E max_price \in FilterMaxPrices, dedupe \in BOOLEAN, sort_by \in SortBys :
          /\ f_call' = [op |-> "execute",
                        task |-> [products |-> f_products,
                                  search_criteria |-> Criteria(max_price),
                                  filter_duplicates |-> dedupe,
                                  sort_by |-> sort_by]]
          /\ f_ret' = Returned(FilterAgent_execute(f_call'.task))
          /\ f_products' = ProductsAfterExecute(f_call'.task)
    /\ UNCHANGED <<cvars, bvars, svars>>

\* filter_agent.sort_products(products, sort_by)
CallSortProducts ==
    /\ f_call = Nothing
    /\ \E sort_by \in SortBys :
          /\ f_call' = [op |-> "sort_products", sort_by |-> sort_by]
          /\ f_ret' = IF SortProductsRaises(f_products, sort_by) THEN Raised
                      ELSE Returned(sort_products(f_products, sort_by))
    /\ UNCHANGED <<f_products, cvars, bvars, svars>>

\* price_validator.analyze_prices(products)
CallAnalyzePrices ==
    /\ f_call = Nothing
    /\ f_call' = [op |-> "analyze_prices"]
    /\ f_ret' = IF AnalyzeRaises(f_products) THEN Raised
                ELSE Returned(analyze_prices(f_products))
    /\ UNCHANGED <<f_products, cvars, bvars, svars>>

\* the validation loop of a provider on the candidates of a page
CallValidateProducts ==
    /\ f_call = Nothing
    /\ \E max_price \in FilterMaxPrices, max_results \in 1..MaxResults :
          /\ f_call' = [op |-> "validate_products",
                        search_criteria |-> Criteria(max_price),
                        max_results |-> max_results]
          /\ f_ret' = Returned(ValidatedResult("jd", f_products,
                                  f_call'.search_criteria, max_results))
    /\ UNCHANGED <<f_products, cvars, bvars, svars>>

NextFilter ==
    \/ CallFilterByPrice
    \/ CallValidateProducts
    \/ CallAnalyzePrices
    \/ CallRemoveDuplicates
    \/ CallSortProducts
    \/ CallFilterAgent

SpecFilter == InitFilter /\ [][NextFilter]_vars

(***************************************************************************)
(* tools/browser_tool.py and main.py: the one BrowserTool of the program,  *)
(* its initialisation and the create_page calls of the providers.  A step  *)
(* is the code between two awaits                                          *)
(***************************************************************************)
\* initialize_components, which builds the tool and the agents
Main == 0
\* the create_page calls made on the tool
Calls == 1..MaxCalls

\* MayCreatePage with the agents built before initialize() has returned
MayCreatePage_BeforeInitialized(c) == bpc[Main] # "constructed"

\* when a provider may call create_page: initialize_components awaits
\* initialize() before it builds the agents and the coordinator, and search
\* runs after initialize_components has returned and before cleanup
MayCreatePage(c) == bpc[Main] = "ready"

\* after BrowserTool(...): no playwright, no browser, no context
InitBrowser ==
    /\ browser_tool = [playwright |-> 0, browser |-> 0, context |-> 0]
    /\ launches = [playwright |-> 0, browser |-> 0, context |-> 0]
    /\ bpc = [k \in {Main} \cup Calls |-> IF k = Main THEN "constructed" ELSE "idle"]
    /\ pages = [c \in Calls |-> 0]
    /\ CoordinatorIdle
    /\ FilterIdle
    /\ SearchIdle

\* initialize() returns to k: initialize_components goes on; create_page
\* evaluates self.context.new_page(), which raises AttributeError on None, and
\* awaits the page
InitializeReturns(k) ==
    IF k = Main
    THEN /\ bpc' = [bpc EXCEPT ![k] = "ready"]
         /\ UNCHANGED pages
    ELSE IF browser_tool'.context = 0
    THEN /\ bpc' = [bpc EXCEPT ![k] = "raised"]
         /\ UNCHANGED pages
    ELSE /\ bpc' = [bpc EXCEPT ![k] = "new_page"]
         /\ pages' = [pages EXCEPT ![k] = browser_tool'.context]

\* k enters initialize(): with a browser it returns at once, without one it
\* awaits async_playwright().start()
EnterInitialize(k) ==
    IF browser_tool.browser = 0
    THEN /\ bpc' = [bpc EXCEPT ![k] = "start"]
         /\ UNCHANGED <<browser_tool, launches, pages>>
    ELSE /\ UNCHANGED <<browser_tool, launches>>
         /\ InitializeReturns(k)

\* main.py, lines 76-80: the tool is built and initialize() is awaited
InitializeComponents ==
    /\ bpc[Main] = "constructed"
    /\ EnterInitialize(Main)
    /\ UNCHANGED <<cvars, fvars, svars>>

\* a provider calls create_page, which awaits initialize()
BeginCreatePage(c) ==
    /\ bpc[c] = "idle"
    /\ MayCreatePage(c)
    /\ EnterInitialize(c)
    /\ UNCHANGED <<cvars, fvars, svars>>

\* start() has returned: self.playwright is set and launch() is awaited
PlaywrightStarted(k) ==
    /\ bpc[k] = "start"
    /\ launches' = [launches EXCEPT !.playwright = @ + 1]
    /\ browser_tool' = [browser_tool EXCEPT !.playwright = launches'.playwright]
    /\ bpc' = [bpc EXCEPT ![k] = "launch"]
    /\ UNCHANGED <<pages, cvars, fvars, svars>>

\* launch() has returned: self.browser is set and new_context() is awaited
BrowserLaunched(k) ==
    /\ bpc[k] = "launch"
    /\ launches' = [launches EXCEPT !.browser = @ + 1]
    /\ browser_tool' = [browser_tool EXCEPT !.browser = launches'.browser]
    /\ bpc' = [bpc EXCEPT ![k] = "new_context"]
    /\ UNCHANGED <<pages, cvars, fvars, svars>>

\* new_context() has returned: self.context is set and initialize() returns
ContextCreated(k) ==
    /\ bpc[k] = "new_context"
    /\ launches' = [launches EXCEPT !.context = @ + 1]
    /\ browser_tool' = [browser_tool EXCEPT !.context = launches'.context]
    /\ InitializeReturns(k)
    /\ UNCHANGED <<cvars, fvars, svars>>

\* new_page() has returned: create_page sets the timeout and returns the page
PageCreated(c) ==
    /\ bpc[c] = "new_page"
    /\ bpc' = [bpc EXCEPT ![c] = "has_page"]
    /\ UNCHANGED <<browser_tool, launches, pages, cvars, fvars, svars>>

\* the call k awaits raises: initialize_components gives up and no agent is
\* built; create_page raises to the provider, which has no page
AwaitRaises(k) ==
    /\ bpc[k] \in {"start", "launch", "new_context", "new_page"}
    /\ bpc' = [bpc EXCEPT ![k] = IF k = Main THEN "aborted" ELSE "raised"]
    /\ pages' = IF k = Main THEN pages ELSE [pages EXCEPT ![k] = 0]
    /\ UNCHANGED <<browser_tool, launches, cvars, fvars, svars>>

\* main.py, cleanup: after the searches have returned the tool is closed;
\* close() leaves the three attributes as they are
Cleanup ==
    /\ bpc[Main] = "ready"
    /\ \A c \in Calls : bpc[c] \in {"idle", "has_page", "raised"}
    /\ bpc' = [bpc EXCEPT ![Main] = "closed"]
    /\ UNCHANGED <<browser_tool, launches, pages, cvars, fvars, svars>>

NextBrowser ==
    \/ InitializeComponents
    \/ \E c \in Calls : BeginCreatePage(c)
    \/ \E k \in {Main} \cup Calls : PlaywrightStarted(k)
    \/ \E k \in {Main} \cup Calls : BrowserLaunched(k)
    \/ \E k \in {Main} \cup Calls : ContextCreated(k)
    \/ \E c \in Calls : PageCreated(c)
    \/ \E k \in {Main} \cup Calls : AwaitRaises(k)
    \/ Cleanup

SpecBrowser == InitBrowser /\ [][NextBrowser]_vars

(***************************************************************************)
(* main.py, memory/search_history.py, memory/session_manager.py: the       *)
(* search() calls made one after the other on a SmartProductFinder whose   *)
(* history and session files were empty                                    *)
(***************************************************************************)
\* session ids: none given, one the caller made up, and the one search()
\* makes of the second it starts in, f"session_{start_time:%Y%m%d_%H%M%S}"
NoSession == [kind |-> "none", at |-> 0]
GivenSession == [kind |-> "given", at |-> 0]
GeneratedSession(second) == [kind |-> "generated", at |-> second]

\* what the two providers of a search may return: an error, validated
\* candidates, a candidate with a title of None
ProviderResults(platform, i, candidates, search_criteria) ==
    {ProviderError(platform, "raised")}
        \cup {ValidatedResult(platform,
                 WithIds([k \in 1..Len(c) |-> [c[k] EXCEPT !.platform = platform]],
                         10 * i),
                 search_criteria, MaxResults) : c \in candidates}

\* what coordinator.run(task) may return to search(): the error dict, or the
\* result of a call that asked for jd and pdd
CoordinatorResults(search_criteria) ==
    {CoordinatorError(search_criteria)}
        \cup {CoordinatorResult(search_criteria, <<"jd", "pdd">>, <<r1, r2>>) :
                r1 \in ProviderResults("jd", 1,
                          { <<Candidate(<<"A">>, IntV(1), Brand),
                              Candidate(<<"B">>, IntV(2), Brand)>>,
                            <<Candidate(<<"B">>, IntV(0), Brand)>>,
                            <<Product(NoneTitle, IntV(1), "", Brand, Model)>> },
                          search_criteria),
                r2 \in ProviderResults("pdd", 2,
                          { <<Candidate(<<"B">>, IntV(2), Brand),
                              Candidate(<<"a", " ">>, FloatV(1), Brand)>> },
                          search_criteria)}

\* SearchHistory._get_best_price: best_deals[0].get('price'), or None
get_best_price(result) ==
    LET best_deals == GetOr(result, "best_deals", <<>>)
    IN  IF best_deals # <<>> THEN Get(best_deals[1].price, NoneV) ELSE NoneV

\* results.get('summary', {}).get(field, default)
SummaryField(result, field, default) ==
    IF "summary" \in DOMAIN result THEN GetOr(result.summary, field, default)
    ELSE default

\* the record add_search appends (its timestamp left out); the id is made of
\* the clock to the microsecond, which two calls of add_search with a
\* coordinate call between them do not share: the number of the record
HistoryRecord(search_id, search_criteria, result, session_id) ==
    [id |-> search_id,
     session_id |-> session_id,
     search_criteria |-> search_criteria,
     summary |-> [total_found |-> SummaryField(result, "total_products_found", 0),
                  after_filtering |-> SummaryField(result, "after_filtering", 0),
                  platforms_searched |->
                      SummaryField(result, "successful_platforms", <<>>),
                  best_price |-> get_best_price(result)],
     status |-> GetOr(result, "status", "unknown")]

\* add_search replacing the last record instead of appending
add_search_KeepsLatestOnly(records, search_id, search_criteria, result, session_id) ==
    IF records = <<>>
    THEN <<HistoryRecord(search_id, search_criteria, result, session_id)>>
    ELSE [records EXCEPT ![Len(records)] =
             HistoryRecord(search_id, search_criteria, result, session_id)]

\* SearchHistory.add_search: self.history after the call
add_search(records, search_id, search_criteria, result, session_id) ==
    Append(records, HistoryRecord(search_id, search_criteria, result, session_id))

\* sessions[session_id] = value, the other sessions as they are
SetSession(sess, session_id, value) ==
    [s \in DOMAIN sess \cup {session_id} |-> IF s = session_id THEN value ELSE sess[s]]

\* SessionManager.create_session: a new dict under the id, whatever was there
create_session(sess, session_id) ==
    SetSession(sess, session_id, [search_count |-> 0, last_search_id |-> 0])

\* SessionManager.increment_search_count: nothing for an id without session
increment_search_count(sess, session_id) ==
    IF session_id \in DOMAIN sess
    THEN SetSession(sess, session_id,
                    [sess[session_id] EXCEPT !.search_count = @ + 1])
    ELSE sess

\* SessionManager.update_session_state with {'last_search_id': search_id}:
\* nothing for an id without session
update_session_state(sess, session_id, search_id) ==
    IF session_id \in DOMAIN sess
    THEN SetSession(sess, session_id,
                    [sess[session_id] EXCEPT !.last_search_id = search_id])
    ELSE sess

InitSearch ==
    /\ history = <<>>
    /\ sessions = <<>>
    /\ now = 0
    /\ s_call = [n |-> 0]
    /\ CoordinatorIdle
    /\ FilterIdle
    /\ BrowserIdle

\* SmartProductFinder.search, lines 126-189, with a coordinator call that
\* returns: the session is made when no id is given, the record is added and
\* the session, when there is one, updated.  The call starts in the second
\* the call before it started in, or in a later one
Search ==
    /\ s_call.n < MaxSearches
    /\ \E second \in {now, now + 1},
          given \in {NoSession, GivenSession} \cup DOMAIN sessions,
          max_price \in SearchMaxPrices :
          \E result \in CoordinatorResults(Criteria(max_price)) :
             LET session_id == IF given = NoSession THEN GeneratedSession(second)
                               ELSE given
                 created == IF given = NoSession
                              THEN create_session(sessions, session_id)
                              ELSE sessions
                 search_id == Len(history) + 1
             IN  /\ now' = second
                 /\ history' = add_search(history, search_id, Criteria(max_price),
                                          result, session_id)
                 /\ sessions' = update_session_state(
                                    increment_search_count(created, session_id),
                                    session_id, search_id)
                 /\ s_call' = [n |-> s_call.n + 1,
                               given |-> given,
                               session_id |-> session_id,
                               search_criteria |-> Criteria(max_price),
                               result |-> result,
                               search_id |-> search_id]
    /\ UNCHANGED <<cvars, fvars, bvars>>

NextSearch == Search

SpecSearch == InitSearch /\ [][NextSearch]_vars

(***************************************************************************)
(* Properties of a coordinate call (checked under Spec)                    *)
(***************************************************************************)
\* the invocation a product of a coordinate call was returned by
SourceOf(product) == product.id \div 10

Succeeded(i) == GetOr(results[i], "status", "") = "success"

\* the requested ids that are in the provider registry, in request order
RequestedProviders ==
    SelectSeq(task.platforms, LAMBDA p : p \in {"jd", "taobao", "pdd"})

InOrderOfRequest(products) ==
    \A a, b \in 1..Len(products) :
        a < b => SourceOf(products[a]) <= SourceOf(products[b])

\* C1: a provider invocation that fails keeps no other requested provider from
\* being invoked and completing; the failure shows up as that platform's
\* result with status=error in results_by_platform, and coordinate returns a
\* result
C1_FailureIsolatedAndReported ==
    cpc = "done" =>
        /\ ret.status = "success"
        /\ search_tasks = RequestedProviders
        /\ \A i \in 1..Len(search_tasks) : tpc[i] = "done" /\ results[i] # Nothing
        /\ \A i \in 1..Len(search_tasks) :
              ~Succeeded(i) =>
                  ret.results_by_platform.val[search_tasks[i]].status = "error"

\* C2: with parallel=true the aggregator runs only after every provider
\* invocation of the call has completed, failed or not
C2_AggregateAfterAllProviders ==
    (cpc = "done" /\ task.parallel) =>
        /\ search_tasks = RequestedProviders
        /\ \A i \in 1..Len(search_tasks) : tpc[i] = "done" /\ results[i] # Nothing

\* a parallel call of two providers where the second completed first and the
\* first one failed
C2_Witness ==
    /\ cpc = "done"
    /\ task.parallel
    /\ finished = <<2, 1>>
    /\ ~Succeeded(1)
    /\ Succeeded(2)

\* C3: with parallel=true, whatever the completion order, all_products lists
\* the products in the order of the platforms in the request
C3_ParallelKeepsRequestOrder ==
    (cpc = "done" /\ task.parallel) =>
        /\ InOrderOfRequest(ret.all_products)
        /\ \A a \in 1..Len(ret.all_products) :
              /\ SourceOf(ret.all_products[a]) \in 1..Len(RequestedProviders)
              /\ ret.all_products[a].platform
                    = RequestedProviders[SourceOf(ret.all_products[a])]

\* a parallel call where the second provider completed first and both
\* returned products
C3_Witness ==
    /\ cpc = "done"
    /\ task.parallel
    /\ finished = <<2, 1>>
    /\ task.platforms = <<"pdd", "jd">>
    /\ \E a, b \in 1..Len(ret.all_products) :
          /\ SourceOf(ret.all_products[a]) = 1
          /\ SourceOf(ret.all_products[b]) = 2

CountIfSuccess(p) ==
    IF /\ p \in DOMAIN ret.results_by_platform.val
       /\ ret.results_by_platform.val[p].status = "success"
    THEN ret.results_by_platform.val[p].count
    ELSE 0

InSeq(x, s) == \E k \in 1..Len(s) : s[k] = x

\* C5: total_products_found is the sum of count over the platforms whose
\* result is a success; a failed platform contributes 0 and is listed in
\* failed_platforms; filtered_products holds only products that came from
\* successful platforms
C5_SummaryCountsSuccessfulOnly ==
    cpc = "done" =>
        /\ ret.summary.total_products_found
              = CountIfSuccess("jd") + CountIfSuccess("taobao") + CountIfSuccess("pdd")
        /\ \A p \in DOMAIN ret.results_by_platform.val :
              ret.results_by_platform.val[p].status # "success"
                  => InSeq(p, ret.summary.failed_platforms)
        /\ \A a \in 1..Len(ret.filtered_products) :
              InSeq(search_tasks[SourceOf(ret.filtered_products[a])],
                    ret.summary.successful_platforms)

\* C6: with parallel=false no provider invocation begins before the one
\* before it in the list has completed, and all_products follows the order of
\* the request
C6_SequentialOneAtATime ==
    (cpc \in {"waiting", "done"} /\ ~task.parallel) =>
        /\ \A i, j \in 1..Len(search_tasks) :
              (i < j /\ tpc[j] # "created") => tpc[i] = "done"
        /\ finished = [k \in 1..Len(finished) |-> k]
        /\ cpc = "done" =>
              /\ InOrderOfRequest(ret.all_products)
              /\ \A a \in 1..Len(ret.all_products) :
                    ret.all_products[a].platform
                        = RequestedProviders[SourceOf(ret.all_products[a])]

\* a sequential call of pdd, then jd, where both went through navigation,
\* extraction and validation: pdd returned two products and jd one, and
\* pdd's products come first in the combined list
C6_Witness ==
    /\ cpc = "done"
    /\ ~task.parallel
    /\ task.platforms = <<"pdd", "jd">>
    /\ Succeeded(1)
    /\ Succeeded(2)
    /\ Len(results[1].products) = 2
    /\ Len(results[2].products) = 1
    /\ ret.all_products[1].platform = "pdd"
    /\ ret.all_products[3].platform = "jd"

\* C7: a requested id outside the registry {jd, taobao, pdd} causes no
\* provider invocation and no error: it is in neither results_by_platform,
\* successful_platforms nor failed_platforms, and coordinate returns
\* status=success, also when every requested id is unknown
C7_UnknownPlatformSkipped ==
    /\ \A i \in 1..Len(search_tasks) : search_tasks[i] \in {"jd", "taobao", "pdd"}
    /\ cpc = "done" =>
          /\ ret.status = "success"
          /\ \A k \in 1..Len(task.platforms) :
                task.platforms[k] \notin {"jd", "taobao", "pdd"} =>
                    /\ task.platforms[k] \notin DOMAIN ret.results_by_platform.val
                    /\ ~InSeq(task.platforms[k], ret.results_by_platform.keys)
                    /\ ~InSeq(task.platforms[k], ret.summary.successful_platforms)
                    /\ ~InSeq(task.platforms[k], ret.summary.failed_platforms)

\* a call that asked for an unknown id and for jd, and jd returned a product
C7_Witness ==
    /\ cpc = "done"
    /\ task.platforms = <<"ebay", "jd">>
    /\ ret.status = "success"
    /\ ret.summary.successful_platforms = <<"jd">>
    /\ Len(ret.all_products) = 1

\* C14: an error raised in the coordinator outside the per-provider capture,
\* here while the provider invocations are built from the platform list,
\* yields a top-level result with status=error and an error message that
\* echoes search_criteria and has no partial results (no results_by_platform,
\* all_products, filtered_products, best_deals or summary); no provider ran
C14_CoordinatorFailureEchoesCriteria ==
    /\ BuildRaises(task.platforms) => cpc \in {"start", "failed"}
    /\ cpc = "failed" =>
          /\ ret.status = "error"
          /\ DOMAIN ret = {"status", "error", "search_criteria"}
          /\ ret.search_criteria = task.search_criteria
          /\ \A i \in 1..Len(search_tasks) :
                tpc[i] = "created" /\ page[i] = "none" /\ results[i] = Nothing

\* a call whose platform list has jd and then an entry that cannot be hashed:
\* the coroutine of jd had been made when the loop raised
C14_Witness ==
    /\ cpc = "failed"
    /\ task.platforms = <<"jd", Unhashable>>
    /\ search_tasks = <<"jd">>
    /\ ret.status = "error"

\* C15: no exception crosses a component boundary: run() of every provider,
\* of the aggregator and of the coordinator returns a result whose status is
\* success or error, also when the exception is raised while the page is
\* released
C15_NoExceptionCrossesBoundary ==
    /\ \A i \in 1..Len(search_tasks) :
          tpc[i] = "done" => results[i].status \in {"success", "error"}
    /\ cpc \in {"done", "failed"} => ret.status \in {"success", "error"}
    /\ cpc = "done" =>
          FilterAgent_execute(FilterTask(ret.all_products, task.search_criteria)).status
              \in {"success", "error"}

\* a call that returned although page.close() raised in one invocation and
\* create_page raised in another
C15_Witness ==
    /\ cpc = "done"
    /\ ret.status = "success"
    /\ \E i, j \in 1..Len(search_tasks) :
          /\ page[i] = "close_raised"
          /\ results[i] = RunError(AgentName(search_tasks[i]))
          /\ page[j] = "none"
          /\ results[j].status = "error"

\* C16: every page an invocation acquires has been released when the
\* invocation returns, on every exit path (success, navigation failure, an
\* exception in extraction or validation): it is closed, unless close() itself
\* raised; a page is open only while its own invocation is between create_page
\* and its finally, and no page is open after coordinate returns
C16_PageClosedOnEveryExit ==
    /\ \A i \in 1..Len(search_tasks) :
          /\ tpc[i] \in {"created", "create_page"} => page[i] = "none"
          /\ page[i] = "open" <=> tpc[i] \in {"navigate", "extract", "close"}
          /\ tpc[i] = "done" =>
                /\ page[i] \in {"none", "closed", "close_raised"}
                /\ page[i] = "none" => progress[i] = "none"
                /\ page[i] = "close_raised" =>
                      results[i] = RunError(AgentName(search_tasks[i]))
    /\ cpc = "done" => \A i \in 1..Len(search_tasks) : page[i] # "open"

\* a call where navigation failed in one invocation and validation raised in
\* another, and both pages are closed
C16_Witness ==
    /\ cpc = "done"
    /\ \E i, j \in 1..Len(search_tasks) :
          /\ progress[i] = "navigation_failed"
          /\ page[i] = "closed"
          /\ progress[j] = "extracted"
          /\ results[j].status = "error"
          /\ page[j] = "closed"

\* C17: an invocation in which navigation fails or the extraction call fails
\* is recorded as a result with status=error that has the platform tag and an
\* error, and its platform is in failed_platforms and not in
\* successful_platforms
C17_NavigationOrExtractionFailureIsError ==
    \A i \in 1..Len(search_tasks) :
        (tpc[i] = "done" /\ progress[i] \in {"navigation_failed", "extraction_failed"})
        => /\ results[i].status = "error"
           /\ GetOr(results[i], "platform", "") = search_tasks[i]
           /\ "error" \in DOMAIN results[i]
           /\ cpc = "done" =>
                 /\ InSeq(search_tasks[i], ret.summary.failed_platforms)
                 /\ ~InSeq(search_tasks[i], ret.summary.successful_platforms)

\* the product passes the match of the spec: brand and criteria brand contain
\* one another (lowercased, trimmed), model likewise, price at most max_price
PassesMatch(product, search_criteria) ==
    LET pb == Strip(Lower(product.brand))
        cb == Strip(Lower(search_criteria.brand))
        pm == Strip(Lower(product.model))
        cm == Strip(Lower(search_criteria.model))
    IN  /\ Contains(pb, cb) \/ Contains(cb, pb)
        /\ Contains(pm, cm) \/ Contains(cm, pm)
        /\ product.price.t \in {"int", "float"}
        /\ product.price.v <= search_criteria.max_price.v

\* C18: every product of a successful provider result passed the match
\* validator: its brand and model match the criteria and its price does not
\* exceed maxPrice; a candidate that fails one of the three does not reach
\* the aggregator
C18_SuccessfulResultsPassedValidator ==
    /\ \A i \in 1..Len(search_tasks) :
          (tpc[i] = "done" /\ Succeeded(i)) =>
              \A k \in 1..Len(results[i].products) :
                  PassesMatch(results[i].products[k], task.search_criteria)
    /\ cpc = "done" =>
          \A a \in 1..Len(ret.all_products) :
              PassesMatch(ret.all_products[a], task.search_criteria)

\* an invocation that returned, of a page with a candidate of another brand
\* and a candidate whose brand matches only without case and spaces, the
\* second one alone
C18_Witness ==
    /\ cpc = "done"
    /\ \E i \in 1..Len(search_tasks) :
          /\ Succeeded(i)
          /\ Len(results[i].products) = 1
          /\ results[i].products[1].brand = <<"A", " ">>
          /\ results[i].products[1].id = 10 * i + 2
          /\ InSeq(results[i].products[1], ret.all_products)

\* a step of the call invokes no provider twice: an invocation that has begun
\* never begins again, one that has ended stays ended with the result it gave,
\* and when execute goes on every occurrence of a registered id in the
\* platform list has been invoked and has ended once
InvokedOnce ==
    /\ \A i \in 1..Len(tpc) :
          /\ tpc[i] # "created" => Len(tpc') = Len(tpc) /\ tpc'[i] # "created"
          /\ tpc[i] = "done" => tpc'[i] = "done" /\ results'[i] = results[i]
    /\ cpc' = "done"
       => /\ search_tasks' = RequestedProviders
          /\ Len(finished') = Len(search_tasks')
          /\ \A i \in 1..Len(search_tasks') :
                Cardinality({k \in 1..Len(finished') : finished'[k] = i}) = 1

\* C27: within one coordinate call each requested provider is invoked exactly
\* once per occurrence of its id in the platform list; after an invocation
\* has ended in failure it is not invoked again and its result stays the
\* error it returned
C27_NoRetry == [][InvokedOnce]_vars

\* a call that asked for jd twice has returned: the first invocation failed,
\* the second succeeded, and each ended once
C27_Witness ==
    /\ cpc = "done"
    /\ task.platforms = <<"jd", "jd">>
    /\ ~Succeeded(1)
    /\ Succeeded(2)
    /\ Len(finished) = 2

\* the filter agent returns a degraded result on the combined products
FilterDegrades ==
    FilterAgent_execute(
        FilterTask(AllProducts(search_tasks, results), task.search_criteria)).status
      = "error"

\* C28: when the filter agent returns a degraded result (status=error), the
\* coordinate call still returns status=success, with results_by_platform and
\* all_products as the providers gave them, no filtered product, no best deal
\* and summary.after_filtering = 0
C28_DegradedFilterDoesNotAbort ==
    (cpc = "done" /\ FilterDegrades)
    => /\ ret.status = "success"
       /\ ret.results_by_platform = ResultsByPlatform(search_tasks, results)
       /\ \A i \in 1..Len(search_tasks) :
             Succeeded(i)
             => \A k \in 1..Len(results[i].products) :
                   InSeq(results[i].products[k], ret.all_products)
       /\ \A k \in 1..Len(ret.all_products) :
             \E i \in 1..Len(search_tasks) :
                Succeeded(i) /\ InSeq(ret.all_products[k], results[i].products)
       /\ ret.filtered_products = <<>>
       /\ ret.best_deals = <<>>
       /\ ret.summary.after_filtering = 0

\* a call has returned whose combined products, one of them with a title of
\* None, made the filter agent fail
C28_Witness ==
    /\ cpc = "done"
    /\ FilterDegrades
    /\ Len(ret.all_products) >= 2
    /\ \E k \in 1..Len(ret.all_products) : ret.all_products[k].title.t = "none"
    /\ ret.status = "success"

\* no element stands twice in s
NoRepeats(s) == \A a, b \in 1..Len(s) : a # b => s[a] # s[b]

\* where p is first asked for in the platform list of the task
FirstRequest(p) ==
    CHOOSE k \in 1..Len(task.platforms) :
        task.platforms[k] = p /\ \A j \in 1..(k - 1) : task.platforms[j] # p

\* the ids of s stand in the order of their first request
InFirstRequestOrder(s) ==
    \A a, b \in 1..Len(s) : a < b => FirstRequest(s[a]) < FirstRequest(s[b])

\* C33: in a successful coordinate result successful_platforms and
\* failed_platforms have no id in common and none twice, hold together exactly
\* the requested ids that are registered, each list in the order of first
\* request; an id is in successful_platforms iff its result in
\* results_by_platform has status=success, which for an id requested once is
\* the result of its invocation
C33_PlatformListsPartitionRequested ==
    (cpc = "done" /\ ret.status = "success")
    => LET ok == ret.summary.successful_platforms
           ko == ret.summary.failed_platforms
           Ids(s) == {s[k] : k \in 1..Len(s)}
       IN  /\ NoRepeats(ok) /\ NoRepeats(ko)
           /\ Ids(ok) \cap Ids(ko) = {}
           /\ Ids(ok) \cup Ids(ko) = Ids(RequestedProviders)
           /\ InFirstRequestOrder(ok) /\ InFirstRequestOrder(ko)
           /\ \A p \in Ids(RequestedProviders) :
                 /\ InSeq(p, ok) <=> ret.results_by_platform.val[p].status = "success"
                 /\ \A i \in 1..Len(search_tasks) :
                       ( /\ search_tasks[i] = p
                         /\ \A j \in 1..Len(search_tasks) : j # i => search_tasks[j] # p )
                       => (InSeq(p, ok) <=> Succeeded(i))

\* pdd and jd were requested in that order: pdd failed, jd succeeded
C33_Witness ==
    /\ cpc = "done"
    /\ ret.status = "success"
    /\ task.platforms = <<"pdd", "jd">>
    /\ ret.summary.successful_platforms = <<"jd">>
    /\ ret.summary.failed_platforms = <<"pdd">>

\* C34: whatever platform list is requested, a successful coordinate result
\* has summary.total_products_found equal to the length of all_products, the
\* list handed to the filter agent, and summary.after_filtering is no more
\* than summary.total_products_found
C34_TotalFoundIsCombinedLength ==
    (cpc = "done" /\ ret.status = "success")
    => /\ ret.summary.total_products_found = Len(ret.all_products)
       /\ ret.summary.after_filtering <= ret.summary.total_products_found

(***************************************************************************)
(* Properties of the filter agent and the price validator (checked under   *)
(* SpecFilter)                                                             *)
(***************************************************************************)
\* the call made on f_products was op
Called(op) == "op" \in DOMAIN f_call /\ f_call.op = op

\* the price is a number with 0 < price <= max_price
InBudget(product, max_price) ==
    /\ product.price.t \in {"int", "float"}
    /\ 0 < product.price.v
    /\ product.price.v <= max_price.v

\* C8: with a truthy maxPrice the price filter keeps exactly the products
\* whose price is a number with 0 < price <= maxPrice, in input order, and
\* drops the others without raising; when every product is priced above
\* maxPrice the aggregate result has filteredCount = 0, originalCount > 0 and
\* status=success
C8_PriceFilterKeepsInBudget ==
    /\ Called("filter_by_price") =>
          /\ ~f_ret.raised
          /\ f_ret.value
                = SelectSeq(f_products, LAMBDA p : InBudget(p, f_call.max_price))
    /\ (Called("execute") /\ Truthy(f_call.task.search_criteria.max_price)) =>
          /\ ~f_ret.raised
          /\ \A a \in 1..Len(f_ret.value.filtered_products) :
                InBudget(f_ret.value.filtered_products[a],
                         f_call.task.search_criteria.max_price)
          /\ ( /\ f_products # <<>>
               /\ \A i \in 1..Len(f_products) :
                     /\ f_products[i].price.t \in {"int", "float"}
                     /\ f_products[i].price.v > f_call.task.search_criteria.max_price.v )
             => /\ f_ret.value.status = "success"
                /\ f_ret.value.filtered_count = 0
                /\ f_ret.value.original_count = Len(f_products)
                /\ f_ret.value.original_count > 0

\* filter_by_price on a list with a product it keeps, one priced 0, one
\* without a price and one with a str price
C8_Witness ==
    /\ Called("filter_by_price")
    /\ Len(f_ret.value) \in 1..(Len(f_products) - 1)
    /\ \E i \in 1..Len(f_products) : f_products[i].price.t = "str"
    /\ \E i \in 1..Len(f_products) : f_products[i].price = IntV(3)

\* the identity the claim gives a product: its lowercased trimmed title and
\* its price
IdentityOf(product) == <<Strip(Lower(product.title.s)), product.price.v>>

\* C9: deduplication keeps, for each identity (lowercased trimmed title,
\* price), exactly the first product of the input that has it, in the original
\* order: two products with the same title and price are duplicates whatever
\* their platform or url.  Stated for products with a str title and a price
\* that is a number.
C9_DedupKeepsFirstOfEachIdentity ==
    ( /\ Called("remove_duplicates")
      /\ \A i \in 1..Len(f_products) :
            /\ f_products[i].title.t = "str"
            /\ f_products[i].price.t \in {"int", "float"} )
    => /\ ~f_ret.raised
       /\ f_ret.value
             = SelectSeq(f_products,
                   LAMBDA p : \A j \in 1..(p.id - 1) :
                                 IdentityOf(f_products[j]) # IdentityOf(p))

\* p is priced no higher than q, a product without a price counting as the
\* most expensive
PricedNoHigher(p, q) ==
    \/ q.price.t = "missing"
    \/ p.price.t # "missing" /\ p.price.v <= q.price.v

\* C10: in every aggregate result bestDeals has length min(5, filteredCount),
\* is non-decreasing by price and is a prefix of filteredProducts sorted
\* ascending by price: its products are products of filteredProducts and no
\* product left out is cheaper than one of them.  A degraded result has no
\* bestDeals: its consumer reads that as the empty list.
C10_BestDealsCheapestPrefix ==
    Called("execute") =>
        LET r == f_ret.value
            best == GetOr(r, "best_deals", <<>>)
            filtered == r.filtered_products
        IN  /\ Len(best) = (IF r.filtered_count < 5 THEN r.filtered_count ELSE 5)
            /\ r.filtered_count = Len(filtered)
            /\ \A a, b \in 1..Len(best) : a < b => PricedNoHigher(best[a], best[b])
            /\ \A a, b \in 1..Len(best) : a # b => best[a].id # best[b].id
            /\ \A a \in 1..Len(best) : InSeq(best[a], filtered)
            /\ \A a \in 1..Len(best) : \A k \in 1..Len(filtered) :
                  InSeq(filtered[k], best) \/ PricedNoHigher(best[a], filtered[k])

\* an aggregate result sorted by title with six products left, of which the
\* five cheapest are the best deals
C10_Witness ==
    /\ Called("execute")
    /\ f_call.task.sort_by = "title"
    /\ f_ret.value.status = "success"
    /\ f_ret.value.filtered_count = 6
    /\ Len(f_ret.value.best_deals) = 5
    /\ f_ret.value.best_deals # Take(f_ret.value.filtered_products, 5)

\* every product has a str title and a price that is a number
WellFormed(products) ==
    \A i \in 1..Len(products) :
        /\ products[i].title.t = "str"
        /\ products[i].price.t \in {"int", "float"}

\* C11: bestDeals does not depend on sortBy: for the same products, criteria
\* and dedupe, aggregate returns the same bestDeals whether sortBy is price,
\* platform, title or an unknown value.  Stated for products with a str title
\* and a price that is a number, for which no sort raises.
C11_BestDealsIndependentOfSortBy ==
    (Called("execute") /\ WellFormed(f_products)) =>
        \A sort_by \in SortBys :
            GetOr(FilterAgent_execute([f_call.task EXCEPT !.sort_by = sort_by]),
                  "best_deals", <<>>)
                = GetOr(f_ret.value, "best_deals", <<>>)

\* C12: every result of aggregate, successful or degraded, has
\* filteredCount <= originalCount and filteredCount = length of
\* filteredProducts
C12_FilteredCountWithinOriginal ==
    Called("execute") =>
        /\ f_ret.value.status \in {"success", "error"}
        /\ f_ret.value.filtered_count <= f_ret.value.original_count
        /\ f_ret.value.filtered_count = Len(f_ret.value.filtered_products)

\* a degraded result of a call on a list of which a product was left when the
\* step raised
C12_Witness ==
    /\ Called("execute")
    /\ f_ret.value.status = "error"
    /\ f_ret.value.original_count >= 1
    /\ f_ret.value.filtered_count = 0

\* C13: when a step of the pipeline raises, aggregate returns a degraded
\* result: status=error, an empty filtered list, filteredCount = 0, an error
\* field, and originalCount equal to the number of products passed in,
\* whichever step raised and whatever earlier steps had dropped
C13_DegradedKeepsOriginalCount ==
    (Called("execute") /\ f_ret.value.status = "error") =>
        /\ f_ret.value.filtered_products = <<>>
        /\ f_ret.value.filtered_count = 0
        /\ "error" \in DOMAIN f_ret.value
        /\ f_ret.value.original_count = Len(f_products)

\* the keys of the list can be compared: a price is a number or absent, a
\* title is a str or absent
Comparable(products, sort_by) ==
    \A i \in 1..Len(products) :
        /\ sort_by = "price" => products[i].price.t \in {"int", "float", "missing"}
        /\ sort_by = "title" => products[i].title.t \in {"str", "missing"}

\* p may stand before q in a list ascending by the key: by price with an
\* absent price as +infinity, by platform or title with an absent value as ''
MayPrecede(p, q, sort_by) ==
    CASE sort_by = "price" -> PricedNoHigher(p, q)
      [] sort_by = "platform" ->
            ~StrLess(PlatformChars(q.platform), PlatformChars(p.platform))
      [] OTHER -> ~StrLess(q.title.s, p.title.s)

\* C20: sort_products returns the products of the list in ascending order of
\* the requested key: by price, a product without a price after every priced
\* one; by platform and by title, lexicographic with an absent value as the
\* empty string, so first
C20_SortAscendingByKey ==
    ( /\ Called("sort_products")
      /\ f_call.sort_by \in {"price", "platform", "title"}
      /\ Comparable(f_products, f_call.sort_by) )
    => /\ ~f_ret.raised
       /\ Len(f_ret.value) = Len(f_products)
       /\ \A i \in 1..Len(f_products) : InSeq(f_products[i], f_ret.value)
       /\ \A a, b \in 1..Len(f_ret.value) :
             a < b => MayPrecede(f_ret.value[a], f_ret.value[b], f_call.sort_by)

\* a sort by price of a list that began with a product without a price, which
\* is last in the result, after a priced product
C20_Witness ==
    /\ Called("sort_products")
    /\ f_call.sort_by = "price"
    /\ ~f_ret.raised
    /\ Len(f_products) >= 2
    /\ f_products[1].price.t = "missing"
    /\ f_ret.value[1].price.t \in {"int", "float"}
    /\ f_ret.value[Len(f_ret.value)].price.t = "missing"

\* how many times x stands in s
Occurrences(x, s) == Cardinality({k \in 1..Len(s) : s[k] = x})

\* C21: whatever sort_by is, a sort_products call that returns gives a
\* permutation of its input: every product stands in the output as many times
\* as in the input and nothing else does; for a sort_by other than price,
\* platform and title the call never raises and returns the input in its order
C21_SortIsPermutation ==
    Called("sort_products")
    => /\ ~f_ret.raised
          => /\ Len(f_ret.value) = Len(f_products)
             /\ \A i \in 1..Len(f_products) :
                   Occurrences(f_products[i], f_ret.value)
                      = Occurrences(f_products[i], f_products)
             /\ \A k \in 1..Len(f_ret.value) : InSeq(f_ret.value[k], f_products)
       /\ f_call.sort_by \notin {"price", "platform", "title"}
          => ~f_ret.raised /\ f_ret.value = f_products

\* a sort by title that changed the order of a list in which two products
\* have the same title
C21_Witness ==
    /\ Called("sort_products")
    /\ f_call.sort_by = "title"
    /\ ~f_ret.raised
    /\ f_ret.value # f_products
    /\ \E i, j \in 1..Len(f_products) :
          i # j /\ f_products[i].title = f_products[j].title

\* C22: deduplication is idempotent: remove_duplicates applied to the list
\* that remove_duplicates returned does not raise and returns that list
C22_DedupIdempotent ==
    (Called("remove_duplicates") /\ ~f_ret.raised)
    => /\ ~DedupRaises(f_ret.value)
       /\ remove_duplicates(f_ret.value) = f_ret.value

\* a call that dropped two products of one key and kept two or more products
C22_Witness ==
    /\ Called("remove_duplicates")
    /\ ~f_ret.raised
    /\ Len(f_ret.value) >= 2
    /\ Len(f_ret.value) + 2 <= Len(f_products)
    /\ \E i, j, k \in 1..Len(f_products) :
          /\ i < j /\ j < k
          /\ DedupKey(f_products[i]) = DedupKey(f_products[j])
          /\ DedupKey(f_products[j]) = DedupKey(f_products[k])

\* the positions of the products whose price is a number above 0
PositiveAt(products) ==
    {i \in 1..Len(products) :
        products[i].price.t \in {"int", "float"} /\ products[i].price.v > 0}

\* the sum of the prices at the positions S
RECURSIVE SumPricesAt(_, _)
SumPricesAt(products, S) ==
    IF S = {} THEN 0
    ELSE LET i == CHOOSE i \in S : TRUE
         IN  products[i].price.v + SumPricesAt(products, S \ {i})

\* the record {count: 0, min: 0, max: 0, average: 0, median: 0}
IsZeroRecord(analysis) ==
    /\ DOMAIN analysis = {"count", "min", "max", "average", "median"}
    /\ analysis.count = 0
    /\ \A field \in {"min", "max", "average", "median"} : analysis[field].num = 0

\* C23: analyze_prices of a list without a price above 0, the empty list
\* included, returns the zeroed record; otherwise count, min, max and average
\* are those of exactly the prices above 0; the filter agent called on an
\* empty list returns the zeroed record and no best deal
C23_ZeroOrPositivePricesOnly ==
    /\ (Called("analyze_prices") /\ ~f_ret.raised)
       => LET pos == PositiveAt(f_products)
              analysis == f_ret.value
          IN  IF pos = {} THEN IsZeroRecord(analysis)
              ELSE /\ analysis.count = Cardinality(pos)
                   /\ analysis.min.den = 1
                   /\ \E i \in pos : f_products[i].price.v = analysis.min.num
                   /\ \A i \in pos : analysis.min.num <= f_products[i].price.v
                   /\ analysis.max.den = 1
                   /\ \E i \in pos : f_products[i].price.v = analysis.max.num
                   /\ \A i \in pos : analysis.max.num >= f_products[i].price.v
                   /\ analysis.average.num * Cardinality(pos)
                         = SumPricesAt(f_products, pos) * analysis.average.den
    /\ (Called("analyze_prices") /\ f_products = <<>>) => ~f_ret.raised
    /\ (Called("execute") /\ f_products = <<>>)
       => /\ f_ret.value.status = "success"
          /\ IsZeroRecord(f_ret.value.price_analysis)
          /\ f_ret.value.best_deals = <<>>

\* an analysis of a list that is not empty and has no price above 0: a price
\* of 0 and an absent price
C23_Witness ==
    /\ Called("analyze_prices")
    /\ ~f_ret.raised
    /\ Len(f_products) = 2
    /\ f_products[1].price = IntV(0)
    /\ f_products[2].price.t = "missing"
    /\ f_ret.value.count = 0

\* the k-th smallest of the prices at the positions S, counted with repeats
KthSmallest(products, S, k) ==
    CHOOSE x \in {products[i].price.v : i \in S} :
        /\ Cardinality({i \in S : products[i].price.v < x}) < k
        /\ k <= Cardinality({i \in S : products[i].price.v <= x})

\* the prices of a list, in its order
PricesOf(products) == [i \in 1..Len(products) |-> products[i].price.v]

\* C24: the median of a price analysis is the middle one of the prices above 0
\* in ascending order when their number is odd and the mean of the two middle
\* ones when it is even, in whatever order the products are given: prices
\* 30, 10, 20 give 20 and prices 40, 10, 30, 20 give 25
C24_MedianOfSortedPositivePrices ==
    (Called("analyze_prices") /\ ~f_ret.raised /\ PositiveAt(f_products) # {})
    => LET pos == PositiveAt(f_products)
           n == Cardinality(pos)
           median == f_ret.value.median
       IN  /\ median.den > 0
           /\ n % 2 = 1
              => median.num = KthSmallest(f_products, pos, (n + 1) \div 2) * median.den
           /\ n % 2 = 0
              => 2 * median.num
                    = ( KthSmallest(f_products, pos, n \div 2)
                        + KthSmallest(f_products, pos, (n \div 2) + 1) ) * median.den
           /\ PricesOf(f_products) = <<30, 10, 20>> => median.num = 20 * median.den
           /\ PricesOf(f_products) = <<40, 10, 30, 20>> => median.num = 25 * median.den

\* the analysis of the prices 40, 10, 30, 20, whose median is 25
C24_Witness ==
    /\ Called("analyze_prices")
    /\ ~f_ret.raised
    /\ Len(f_products) = 4
    /\ PricesOf(f_products) = <<40, 10, 30, 20>>
    /\ f_ret.value.median.num = 25 * f_ret.value.median.den

\* the platform tag of a product; a dict without the key counts as 'unknown'
TagOf(product) == IF product.platform = "" THEN "unknown" ELSE product.platform

\* the sum of the counts of the entries S of by_platform
RECURSIVE SumOfCounts(_, _)
SumOfCounts(by_platform, S) ==
    IF S = {} THEN 0
    ELSE LET tag == CHOOSE tag \in S : TRUE
         IN  by_platform[tag].count + SumOfCounts(by_platform, S \ {tag})

\* C25: in a price analysis that is not the zeroed record, by_platform has an
\* entry for exactly the platform tags with a price above 0, each with the
\* count, average, min and max of the prices above 0 of that platform; the
\* counts add up to the overall count and the smallest min is the overall min
C25_ByPlatformPartitionsPositivePrices ==
    (Called("analyze_prices") /\ ~f_ret.raised /\ PositiveAt(f_products) # {})
    => LET pos == PositiveAt(f_products)
           analysis == f_ret.value
           by_platform == analysis.by_platform
       IN  /\ DOMAIN by_platform = {TagOf(f_products[i]) : i \in pos}
           /\ \A tag \in DOMAIN by_platform :
                 LET at == {i \in pos : TagOf(f_products[i]) = tag}
                     entry == by_platform[tag]
                 IN  /\ DOMAIN entry = {"count", "average", "min", "max"}
                     /\ entry.count = Cardinality(at)
                     /\ entry.average.num * Cardinality(at)
                           = SumPricesAt(f_products, at) * entry.average.den
                     /\ entry.min.den = 1 /\ entry.max.den = 1
                     /\ \E i \in at : f_products[i].price.v = entry.min.num
                     /\ \A i \in at : entry.min.num <= f_products[i].price.v
                     /\ \E i \in at : f_products[i].price.v = entry.max.num
                     /\ \A i \in at : entry.max.num >= f_products[i].price.v
           /\ SumOfCounts(by_platform, DOMAIN by_platform) = analysis.count
           /\ \E tag \in DOMAIN by_platform : by_platform[tag].min = analysis.min
           /\ \A tag \in DOMAIN by_platform :
                 by_platform[tag].min.num >= analysis.min.num

\* an analysis with an entry for a platform, and none for the platform of a
\* product priced 0
C25_Witness ==
    /\ Called("analyze_prices")
    /\ ~f_ret.raised
    /\ "by_platform" \in DOMAIN f_ret.value
    /\ \E i, j \in 1..Len(f_products) :
          /\ f_products[i].price = IntV(0)
          /\ f_products[i].platform \notin DOMAIN f_ret.value.by_platform
          /\ f_products[j].platform \in DOMAIN f_ret.value.by_platform

\* C26: with a max_price that is absent, None or 0 no product is dropped for
\* its price: the filter agent keeps every product it is given (but the
\* duplicates, when asked to drop them), and the validation of a provider
\* keeps every candidate of the brand and model among the first max_results,
\* so that a search with max_price = 0 is not restricted by price
C26_FalsyMaxPriceNotRestricted ==
    /\ ( /\ Called("execute")
         /\ ~Truthy(Get(f_call.task.search_criteria.max_price, NoneV))
         /\ f_ret.value.status = "success" )
       => \A i \in 1..Len(f_products) :
             \/ InSeq(f_products[i], f_ret.value.filtered_products)
             \/ /\ f_call.task.filter_duplicates
                /\ \E j \in 1..(i - 1) : DedupKey(f_products[j]) = DedupKey(f_products[i])
    /\ ( /\ Called("validate_products")
         /\ ~Truthy(Get(f_call.search_criteria.max_price, NoneV)) )
       => /\ f_ret.value.status = "success"
          /\ f_ret.value.products = Take(f_products, f_call.max_results)

\* C29: the filter agent changes neither a product nor the list it is given:
\* when execute has returned the list of the task has the same products in the
\* same order as when it was passed, and every product of filtered_products
\* and of best_deals is one of them, with every field as it was
C29_PipelineMutatesNothing ==
    Called("execute")
    => /\ f_products = f_call.task.products
       /\ \A k \in 1..Len(f_ret.value.filtered_products) :
             InSeq(f_ret.value.filtered_products[k], f_call.task.products)
       /\ f_ret.value.status = "success"
          => \A k \in 1..Len(f_ret.value.best_deals) :
                InSeq(f_ret.value.best_deals[k], f_call.task.products)

\* a call that dropped a product and returned the others in another order
\* than the one they were given in
C29_Witness ==
    /\ Called("execute")
    /\ f_ret.value.status = "success"
    /\ f_ret.value.best_deals # <<>>
    /\ Len(f_ret.value.filtered_products) < Len(f_products)
    /\ \E a, b \in 1..Len(f_ret.value.filtered_products) :
          /\ a < b
          /\ f_ret.value.filtered_products[a].id > f_ret.value.filtered_products[b].id

\* C35: when max_price is truthy and the filter agent succeeds with a list
\* that is not empty, price_analysis.count is filtered_count and
\* price_analysis.min is the price of the first best deal; with a falsy
\* max_price a product without a price or with a price of 0 or less may stay
\* in filtered_products and best_deals and is left out of the analysis, so in
\* every successful result price_analysis.count <= filtered_count
C35_AnalysisCountWithinFiltered ==
    (Called("execute") /\ f_ret.value.status = "success")
    => LET r == f_ret.value
           max_price == Get(f_call.task.search_criteria.max_price, NoneV)
       IN  /\ (Truthy(max_price) /\ r.filtered_products # <<>>)
              => /\ r.price_analysis.count = r.filtered_count
                 /\ r.best_deals # <<>>
                 /\ r.price_analysis.min.den = 1
                 /\ r.price_analysis.min.num = r.best_deals[1].price.v
           /\ r.price_analysis.count <= r.filtered_count
           /\ r.price_analysis.count
                 = Cardinality(PositiveAt(r.filtered_products))

\* a successful call with max_price 0 whose best deals hold a product priced
\* 0 and whose analysis counts fewer products than were kept, but not none
C35_Witness ==
    /\ Called("execute")
    /\ f_ret.value.status = "success"
    /\ ~Truthy(Get(f_call.task.search_criteria.max_price, NoneV))
    /\ \E k \in 1..Len(f_ret.value.best_deals) :
          f_ret.value.best_deals[k].price = IntV(0)
    /\ \E k \in 1..Len(f_ret.value.filtered_products) :
          f_ret.value.filtered_products[k].price.t = "missing"
    /\ 0 < f_ret.value.price_analysis.count
    /\ f_ret.value.price_analysis.count < f_ret.value.filtered_count

\* the candidate matches the criteria: brand and model, and a price no
\* higher than max_price when the criteria have one
MatchesCriteria(product, search_criteria) ==
    IF search_criteria.max_price.t = "missing"
    THEN PassesMatch([product EXCEPT !.price = IntV(0)],
                     [search_criteria EXCEPT !.max_price = IntV(0)])
    ELSE PassesMatch(product, search_criteria)

\* C37: a successful result of a provider has count equal to the length of
\* products and at most max_results: products are the candidates that match
\* among the first max_results candidates of the extraction, in its order; a
\* matching candidate after position max_results is not returned, also when
\* candidates before it were rejected
C37_ValidatedFromFirstMaxResults ==
    (Called("validate_products") /\ f_ret.value.status = "success")
    => LET r == f_ret.value
           kept == {k \in 1..Len(f_products) :
                      /\ k <= f_call.max_results
                      /\ MatchesCriteria(f_products[k], f_call.search_criteria)}
       IN  /\ r.count = Len(r.products)
           /\ r.count <= f_call.max_results
           /\ Len(r.products) = Cardinality(kept)
           /\ \A n \in 1..Len(r.products) :
                 r.products[n]
                    = f_products[CHOOSE k \in kept :
                                    Cardinality({j \in kept : j <= k}) = n]
           /\ \A k \in 1..Len(f_products) :
                 k > f_call.max_results => ~InSeq(f_products[k], r.products)

\* a result with fewer products than max_results although a candidate after
\* position max_results matches: a candidate before it was rejected
C37_Witness ==
    /\ Called("validate_products")
    /\ f_ret.value.status = "success"
    /\ f_call.max_results = 2
    /\ f_ret.value.count = 1
    /\ ~MatchesCriteria(f_products[1], f_call.search_criteria)
    /\ \E k \in 3..Len(f_products) :
          MatchesCriteria(f_products[k], f_call.search_criteria)

(***************************************************************************)
(* The coordinator and the filter agent end to end (checked under Spec)    *)
(***************************************************************************)
\* C19: when every requested platform succeeds, filtered_products has exactly
\* one product per distinct identity (title, price) among the combined
\* products within budget, after_filtering is their number, and
\* successful_platforms lists the platforms in request order
C19_OnePerIdentityEndToEnd ==
    ( /\ cpc = "done"
      /\ Truthy(task.search_criteria.max_price)
      /\ \A i \in 1..Len(search_tasks) : Succeeded(i) )
    => LET budget == task.search_criteria.max_price.v
           combined == SelectSeq(ret.all_products,
                          LAMBDA p : 0 < p.price.v /\ p.price.v <= budget)
           identities == {IdentityOf(combined[a]) : a \in 1..Len(combined)}
       IN  /\ \A k \in 1..Len(ret.filtered_products) :
                 InSeq(ret.filtered_products[k], combined)
           /\ \A key \in identities :
                 Cardinality({k \in 1..Len(ret.filtered_products) :
                                IdentityOf(ret.filtered_products[k]) = key}) = 1
           /\ ret.summary.after_filtering = Cardinality(identities)
           /\ ret.summary.successful_platforms = ret.results_by_platform.keys

\* products of one price stand in s in the order the providers were requested
\* and, within a provider, in the order it returned them
TiesInArrivalOrder(s) ==
    \A a, b \in 1..Len(s) :
        (a < b /\ s[a].price.v = s[b].price.v) => s[a].id < s[b].id

\* C36: sorting is stable, so among the products of one price in
\* filtered_products and in best_deals of a coordinate result the one of the
\* platform requested earlier, and within a platform the one returned
\* earlier, comes first
C36_StableAmongEqualPrices ==
    (cpc = "done" /\ ret.status = "success")
    => /\ TiesInArrivalOrder(ret.filtered_products)
       /\ TiesInArrivalOrder(ret.best_deals)

\* pdd was requested before jd; the product priced 1.0 of pdd stands before
\* the product priced 1 of jd, and a dearer product of pdd after them
C36_Witness ==
    /\ cpc = "done"
    /\ ret.status = "success"
    /\ task.platforms = <<"pdd", "jd">>
    /\ Len(ret.best_deals) = 3
    /\ ret.best_deals = ret.filtered_products
    /\ ret.best_deals[1].platform = "pdd" /\ ret.best_deals[1].price = FloatV(1)
    /\ ret.best_deals[2].platform = "jd" /\ ret.best_deals[2].price = IntV(1)
    /\ ret.best_deals[3].platform = "pdd"


(***************************************************************************)
(* Properties of the browser tool (checked under SpecBrowser)              *)
(***************************************************************************)
\* C30: concurrent provider invocations share no state that changes through
\* the browser tool: however the create_page calls interleave, one playwright,
\* one browser and one context are started at most, no call changes an
\* attribute of the tool, and every page comes from that one context
C30_BrowserLaunchedOnce ==
    /\ launches.playwright <= 1
    /\ launches.browser <= 1
    /\ launches.context <= 1
    /\ \A c \in Calls :
          /\ bpc[c] \in {"new_page", "has_page"}
             => /\ pages[c] = 1
                /\ pages[c] = browser_tool.context
          /\ bpc[c] \notin {"start", "launch", "new_context"}
          /\ bpc[c] = "raised" => browser_tool.context = 1

\* two create_page calls await their pages at the same time and another one
\* has its page
C30_Witness ==
    /\ launches.browser = 1
    /\ \E a, b, c \in Calls :
          /\ a # b
          /\ bpc[a] = "new_page"
          /\ bpc[b] = "new_page"
          /\ bpc[c] = "has_page"

(***************************************************************************)
(* Properties of search(), the history and the sessions (checked under     *)
(* SpecSearch)                                                             *)
(***************************************************************************)
\* the record a search() call added says what the call was given and got
RecordsCall(record, call) ==
    /\ record.id = call.search_id
    /\ record.search_criteria = call.search_criteria
    /\ record.session_id = call.session_id
    /\ record.status = call.result.status
    /\ IF call.result.status = "success"
       THEN /\ record.summary.total_found = call.result.summary.total_products_found
            /\ record.summary.after_filtering = call.result.summary.after_filtering
            /\ IF call.result.best_deals = <<>>
               THEN record.summary.best_price = NoneV
               ELSE /\ record.summary.best_price = call.result.best_deals[1].price
                    /\ \A k \in 1..Len(call.result.filtered_products) :
                          record.summary.best_price.v
                             <= call.result.filtered_products[k].price.v
       ELSE /\ record.summary.total_found = 0
            /\ record.summary.after_filtering = 0
            /\ record.summary.best_price = NoneV

\* a search() call adds one record at the end of the history and leaves the
\* records before it as they were
AppendsOneRecord ==
    s_call'.n # s_call.n
    => /\ Len(history') = Len(history) + 1
       /\ SubSeq(history', 1, Len(history)) = history
       /\ RecordsCall(history'[Len(history')], s_call')

\* C31: every search() call whose coordinator call returns adds exactly one
\* record to the history, whatever the status of the result; the record has
\* the criteria, the session id, the counts of the summary and as best_price
\* the price of the first best deal, the lowest price among the filtered
\* products, or None without best deals; the earlier records stay as they are
C31_SearchAppendsOneRecord == [][AppendsOneRecord]_vars

\* two searches under one session id: the first succeeded with a best price
\* of 1, the second got the error dict of the coordinator and has no best price
C31_Witness ==
    /\ Len(history) = 2
    /\ history[1].session_id = history[2].session_id
    /\ history[1].status = "success"
    /\ history[1].summary.best_price = IntV(1)
    /\ history[1].summary.after_filtering = 3
    /\ history[2].status = "error"
    /\ history[2].summary.best_price = NoneV

\* the records of the searches made under the session id
RecordsOf(session_id) == {k \in 1..Len(history) : history[k].session_id = session_id}

\* C32: after any sequence of search() calls the search_count of each session
\* is the number of searches completed under its id and its last_search_id is
\* the id of the record of the latest of them, for a session id made by
\* search() and for one given by the caller alike
C32_SessionCountsItsSearches ==
    \A k \in 1..Len(history) :
        LET session_id == history[k].session_id
            latest == CHOOSE j \in RecordsOf(session_id) :
                          \A i \in RecordsOf(session_id) : i <= j
        IN  /\ session_id \in DOMAIN sessions
            /\ sessions[session_id].search_count = Cardinality(RecordsOf(session_id))
            /\ sessions[session_id].last_search_id = history[latest].id

====
